---- MODULE Spec2Model ----
(***************************************************************************)
(* Retrieval cascade (search_engine.py), cross linker (cross_linker.py)    *)
(* and content expander (expand_engine.py) of the Figma documentation      *)
(* server, over a small corpus of pages and chunks.                        *)
(*                                                                         *)
(* Texts are sequences of atoms: identifiers, "." and " ".  A substring    *)
(* test of the code (SQL LIKE '%x%', Python `in`) is a contiguous          *)
(* sub-sequence test on atoms, compared case-insensitively where the code  *)
(* does.  Scores are exact rationals [n, d].                               *)
(*                                                                         *)
(* The query normalizer (query_normalizer.py) and the preview generator    *)
(* (preview_generator.py) are pure functions on strings of characters,     *)
(* each under a specification of its own; WideSpec searches with larger    *)
(* limits, ConcurrentSpec runs several calls on one server, ExtractorSpec *)
(* asks one cross linker for the symbols of text after text, and ToolSpec  *)
(* is the tool dispatcher of mcp_server.py with its metrics.               *)
(***************************************************************************)
EXTENDS Integers, Sequences, FiniteSets, TLC

VARIABLES pages, chunks, embeddings, usage_cache, response, ingests,
          aliases_file, aliases, output, symbol_cache, calls, metrics

vars == <<pages, chunks, embeddings, usage_cache, response, ingests,
          aliases_file, aliases, output, symbol_cache, calls, metrics>>

(***************************************************************************)
(* Bounds of the model.                                                    *)
(***************************************************************************)
MaxLimit == 2
MaxWindow == 2
MaxIngest == 1
MaxWide == 3
MaxCalls == 2

(***************************************************************************)
(* Atoms and strings.                                                      *)
(***************************************************************************)
Lower(a) ==
    CASE a = "Figma" -> "figma"
      [] a = "CreateRectangle" -> "createrectangle"
      [] a = "createRectangle" -> "createrectangle"
      [] a = "postMessage" -> "postmessage"
      [] a = "TextNode" -> "textnode"
      [] OTHER -> a

CharLen(a) ==
    CASE a \in {".", " ", "="} -> 1
      [] a = "ui" -> 2
      [] a \in {"figma", "Figma", "const", "shape"} -> 5
      [] a = "rect" -> 4
      [] a \in {"nomatch"} -> 7
      [] a \in {"TextNode", "textnode"} -> 8
      [] a \in {"postMessage", "postmessage"} -> 11
      [] a = "PAD" -> 500
      [] OTHER -> 15

IsIdent(a) == a \notin {".", " ", "="}

LowerStr(s) == [i \in 1..Len(s) |-> Lower(s[i])]

RECURSIVE StrLen(_)
StrLen(s) == IF s = <<>> THEN 0 ELSE CharLen(Head(s)) + StrLen(Tail(s))

\* s[i..j] as Python's s[i-1:j]
Slice(s, i, j) == IF j < i THEN <<>> ELSE SubSeq(s, i, j)

StartsWith(s, p) == Len(p) <= Len(s) /\ SubSeq(s, 1, Len(p)) = p

\* exact (case-sensitive) occurrence of p at position i of s
OccursAt(s, p, i) ==
    /\ i >= 1
    /\ i + Len(p) - 1 <= Len(s)
    /\ \A j \in 1..Len(p) : s[i + j - 1] = p[j]

\* Python `p in s`
In(p, s) == \E i \in 1..(Len(s) + 1) : OccursAt(s, p, i)

\* SQL: s LIKE '%' || p || '%'  (LIKE folds ASCII case)
Like(s, p) == In(LowerStr(p), LowerStr(s))

\* Python s.count(p) for a non-empty p: non-overlapping occurrences from the left
RECURSIVE CountFrom(_, _, _)
CountFrom(s, p, i) ==
    IF i + Len(p) - 1 > Len(s) THEN 0
    ELSE IF OccursAt(s, p, i) THEN 1 + CountFrom(s, p, i + Len(p))
    ELSE CountFrom(s, p, i + 1)

Count(s, p) == IF p = <<>> THEN StrLen(s) + 1 ELSE CountFrom(s, p, 1)

\* Python len(s.split()): maximal runs of non-blank atoms
WordCount(s) ==
    Cardinality({i \in 1..Len(s) : s[i] # " " /\ (i = 1 \/ s[i - 1] = " ")})

\* position of the last "." of s, 0 when there is none
LastDot(s) ==
    IF \E i \in 1..Len(s) : s[i] = "."
    THEN CHOOSE i \in 1..Len(s) : s[i] = "." /\ \A j \in (i + 1)..Len(s) : s[j] # "."
    ELSE 0

FIGMA_DOT == <<"figma", ".">>

(***************************************************************************)
(* Rationals [n, d] with d > 0: the scores and confidences of the code.    *)
(***************************************************************************)
Rat(n, d) == [n |-> n, d |-> d]

RatLess(a, b) == a.n * b.d < b.n * a.d

RatEq(a, b) == a.n * b.d = b.n * a.d

Min(a, b) == IF a <= b THEN a ELSE b

Max(a, b) == IF a >= b THEN a ELSE b

Take(s, k) == IF k <= 0 THEN <<>> ELSE SubSeq(s, 1, Min(k, Len(s)))

SeqToSet(s) == {s[i] : i \in 1..Len(s)}

RECURSIVE Flatten(_)
Flatten(ss) == IF ss = <<>> THEN <<>> ELSE Head(ss) \o Flatten(Tail(ss))

\* the elements of s that satisfy keep[i], in order
RECURSIVE Filter(_, _)
Filter(s, keep) ==
    IF s = <<>> THEN <<>>
    ELSE (IF Head(keep) THEN <<Head(s)>> ELSE <<>>) \o Filter(Tail(s), Tail(keep))

\* Python list.sort(key, reverse=True): descending by key, equal keys keep
\* their order.  keys[i] = <<score, flag>> is the key of s[i].
KeyGreater(a, b) ==
    \/ RatLess(b[1], a[1])
    \/ RatEq(a[1], b[1]) /\ a[2] > b[2]

RECURSIVE SortIdxDesc(_, _)
SortIdxDesc(keys, idx) ==
    IF idx = {} THEN <<>>
    ELSE LET i == CHOOSE x \in idx : \A y \in idx \ {x} :
                      \/ KeyGreater(keys[x], keys[y])
                      \/ ~KeyGreater(keys[y], keys[x]) /\ x < y
         IN  <<i>> \o SortIdxDesc(keys, idx \ {i})

SortDesc(s, keys) ==
    LET o == SortIdxDesc(keys, 1..Len(s)) IN [i \in 1..Len(s) |-> s[o[i]]]

(***************************************************************************)
(* Symbol extraction (regular expressions, re.IGNORECASE, on atoms).       *)
(***************************************************************************)
IsFigma(a) == Lower(a) = "figma"

IsNodeAtom(a) == Lower(a) \in {"textnode"}

\* end of (?:\.Ident)* starting after position e
RECURSIVE DottedEnd(_, _)
DottedEnd(s, e) ==
    IF e + 2 <= Len(s) /\ s[e + 1] = "." /\ IsIdent(s[e + 2])
    THEN DottedEnd(s, e + 2) ELSE e

\* end of [a-zA-Z0-9_.]* starting after position e
RECURSIVE DotRunEnd(_, _)
DotRunEnd(s, e) ==
    IF e + 1 <= Len(s) /\ (s[e + 1] = "." \/ IsIdent(s[e + 1]))
    THEN DotRunEnd(s, e + 1) ELSE e

FigmaHead(s, i) ==
    i + 2 <= Len(s) /\ IsFigma(s[i]) /\ s[i + 1] = "." /\ IsIdent(s[i + 2])

\* the end of the match of pattern kind at position i of s, 0 when there is none
MatchEnd(s, i, kind) ==
    CASE kind = "figma_content" -> IF FigmaHead(s, i) THEN DottedEnd(s, i + 2) ELSE 0
      [] kind = "figma_query" -> IF FigmaHead(s, i) THEN DotRunEnd(s, i + 2) ELSE 0
      [] kind = "node" -> IF IsNodeAtom(s[i]) THEN i ELSE 0
      [] kind = "ui_content" ->
            IF i + 2 <= Len(s) /\ Lower(s[i]) = "ui" /\ s[i + 1] = "." /\ IsIdent(s[i + 2])
            THEN i + 2 ELSE 0
      [] kind = "ui_query" ->
            IF i + 2 <= Len(s) /\ Lower(s[i]) = "ui" /\ s[i + 1] = "."
               /\ Lower(s[i + 2]) = "postmessage"
            THEN i + 2 ELSE 0
      [] kind = "word_query" ->
            IF Lower(s[i]) \in {"clientstorage", "showui"} THEN i ELSE 0

\* re.findall: the non-overlapping matches from the left
RECURSIVE FindAll(_, _, _)
RECURSIVE FindFrom(_, _, _, _)
FindFrom(s, i, kind, e) ==
    IF e = 0 THEN FindAll(s, i + 1, kind)
    ELSE {SubSeq(s, i, e)} \cup FindAll(s, e + 1, kind)

FindAll(s, i, kind) ==
    IF i > Len(s) THEN {} ELSE FindFrom(s, i, kind, MatchEnd(s, i, kind))

\* search_engine.py: list(set(symbols)) as a set; its order is the caller's
extract_api_symbols_from_query(query) ==
    FindAll(query, 1, "figma_query") \cup FindAll(query, 1, "node")
        \cup FindAll(query, 1, "word_query") \cup FindAll(query, 1, "ui_query")

\* cross_linker.py, without its cache: every match carries one of the markers
\* 'figma.', 'node', 'event', 'storage', 'ui.', so normalisation keeps them all
ExtractContentSymbols(content) ==
    FindAll(content, 1, "figma_content") \cup FindAll(content, 1, "node")
        \cup FindAll(content, 1, "ui_content")

\* clean_symbol and, when it has a ".", its last segment
CleanVariants(clean) ==
    <<clean>> \o (IF In(<<".">>, clean)
                  THEN <<Slice(clean, LastDot(clean) + 1, Len(clean))>> ELSE <<>>)

\* [symbol, symbol[6:], symbol[6:].split(".")[-1]] as far as they exist
BaseVariants(symbol) ==
    IF StartsWith(symbol, FIGMA_DOT)
    THEN <<symbol>> \o CleanVariants(Slice(symbol, 3, Len(symbol)))
    ELSE <<symbol>>

\* order-preserving removal of duplicates
RECURSIVE Dedupe(_, _)
Dedupe(s, seen) ==
    IF s = <<>> THEN <<>>
    ELSE IF Head(s) \in seen THEN Dedupe(Tail(s), seen)
    ELSE <<Head(s)>> \o Dedupe(Tail(s), seen \cup {Head(s)})

MIN_VARIANT_LEN == 2

WithLower(v) == v \o [i \in 1..Len(v) |-> LowerStr(v[i])]

LongEnough(u) == Filter(u, [i \in 1..Len(u) |-> StrLen(u[i]) > MIN_VARIANT_LEN])

\* cross_linker.py: variants, then their lower-case forms, duplicates removed in
\* order, variants of at most 2 characters dropped
create_search_variants(api_symbol) == LongEnough(Dedupe(WithLower(BaseVariants(api_symbol)), {}))

(***************************************************************************)
(* The corpus store: pages, chunks, embeddings (read-only to the core).    *)
(***************************************************************************)
T_DOC == <<"figma", ".", "createRectangle", " ", "shape">>
T_CODE == <<"const", " ", "rect", " ", "=", " ", "figma", ".", "createRectangle">>
T_POST == <<"figma", ".", "ui", ".", "postMessage", " ", "shape">>
T_NODE == <<"figma", ".", "ui", ".", "postMessage", " ", "TextNode">>
T_PLAIN == <<"shape", " ", "shape", " ", "rect">>
T_CASED == <<"Figma", ".", "CreateRectangle", " ", "=", " ", "figma", ".", "createRectangle">>
T_CALL == <<"figma", ".", "ui", ".", "postMessage">>
T_UI == <<"ui", ".", "postMessage", " ", "rect">>
T_TYPE == <<"TextNode", " ", "shape">>
T_USE == <<"const", " ", "ui", ".", "postMessage">>

\* the texts ingestion gives a community chunk
IngestTexts == {T_CODE, T_PLAIN, T_CASED}

Q_SYMBOL == <<"figma", ".", "createRectangle">>
Q_NESTED == <<"figma", ".", "ui", ".", "postMessage">>
Q_WORD == <<"shape">>
Q_NONE == <<"nomatch">>

Queries == {Q_SYMBOL, Q_NESTED, Q_WORD, Q_NONE}

Scopes == {"auto", "official", "community_plugin"}

\* rowid order of the chunk table
ChunkSeq == <<"c1", "c2", "c3", "c4", "chunk0005">>

ChunkIds == SeqToSet(ChunkSeq)

RowId(c) == CHOOSE i \in 1..Len(ChunkSeq) : ChunkSeq[i] = c

Page(source, section, title, url) ==
    [source |-> source, section |-> section, title |-> title, url |-> url]

Chunk(page_id, chunk_index, chunk_of, text) ==
    [page_id |-> page_id, chunk_index |-> chunk_index, chunk_of |-> chunk_of, text |-> text]

\* "c4" names a page and a chunk; "p0" is a page without chunks
InitPages ==
    [p \in {"p1", "p2", "c4", "p0"} |->
        CASE p = "p1" -> Page("official", "plugin", <<"createRectangle">>, "figma.com/plugin-docs")
          [] p = "p2" -> Page("community", "community_plugin", <<"rect">>, "github.com")
          [] p = "c4" -> Page("official", "widget", <<"TextNode">>, "figma.com/widget-docs")
          [] OTHER -> Page("official", "guide", <<"shape">>, "figma.com/plugin-docs")]

Layout(t1, t2, t3, t4, t5) ==
    [c \in ChunkIds |->
        CASE c = "c1" -> Chunk("p1", 0, 3, t1)
          [] c = "c2" -> Chunk("p1", 1, 3, t2)
          [] c = "c3" -> Chunk("p1", 2, 3, t3)
          [] c = "c4" -> Chunk("p2", 0, 1, t4)
          [] OTHER -> Chunk("c4", 0, 1, t5)]

InitCorpora ==
    { Layout(T_DOC, T_PLAIN, T_POST, T_CODE, T_NODE),
      Layout(T_PLAIN, T_PLAIN, T_PLAIN, T_CODE, T_PLAIN),
      Layout(T_PLAIN, T_PLAIN, T_PLAIN, T_PLAIN, T_PLAIN) }

\* three community chunks on p2, one official chunk on p1
Swapped(t1, t2, t3, t4, t5) ==
    [c \in ChunkIds |->
        CASE c = "c1" -> Chunk("p2", 0, 3, t1)
          [] c = "c2" -> Chunk("p2", 1, 3, t2)
          [] c = "c3" -> Chunk("p2", 2, 3, t3)
          [] c = "c4" -> Chunk("p1", 0, 1, t4)
          [] OTHER -> Chunk("c4", 0, 1, t5)]

Store(cs, es) == [chunks |-> cs, embeddings |-> es]

\* stores with many candidates: a corpus and the chunks that have an embedding
WideStores ==
    { Store(Layout(T_DOC, T_PLAIN, T_POST, T_CODE, T_NODE), {"c2", "c4"}),
      Store(Layout(T_DOC, T_PLAIN, T_POST, T_CODE, T_NODE), {"c1", "c2", "c3", "c4"}),
      Store(Swapped(T_CALL, T_UI, T_TYPE, T_NODE, T_PLAIN), {"c1", "c2", "c3", "c4"}),
      Store(Swapped(T_UI, T_USE, T_TYPE, T_NODE, T_PLAIN), {"c1", "c2", "c3", "c4"}) }

\* variant: the official filter without its section test
ScopeFilter_source_only(section, p) ==
    CASE section = "official" -> p.source = "official"
      [] section = "community_plugin" -> p.section = "community_plugin"
      [] OTHER -> p.section = section \/ p.source = section

\* the WHERE clause of a section filter, on the page p of a row
ScopeFilter(section, p) ==
    CASE section = "official" -> p.source = "official" /\ p.section = "plugin"
      [] section = "community_plugin" -> p.section = "community_plugin"
      [] OTHER -> p.section = section \/ p.source = section

\* FROM chunks c JOIN pages p ON p.id = c.page_id
Joined == {c \in DOMAIN chunks : chunks[c].page_id \in DOMAIN pages}

PageOf(c) == pages[chunks[c].page_id]

MentionsFigma(c) == Like(chunks[c].text, FIGMA_DOT)

\* ORDER BY CASE WHEN c.text LIKE '%figma.%' THEN 1 ELSE 2 END, LENGTH(c.text) ASC;
\* rows with equal keys come in rowid order, ascending or descending (tie)
RowKey(c) == <<IF MentionsFigma(c) THEN 1 ELSE 2, StrLen(chunks[c].text), RowId(c)>>

KeyBefore(ka, kb, tie) ==
    \/ ka[1] < kb[1]
    \/ ka[1] = kb[1] /\ ka[2] < kb[2]
    \/ ka[1] = kb[1] /\ ka[2] = kb[2] /\ (IF tie = "asc" THEN ka[3] < kb[3] ELSE ka[3] > kb[3])

First(S, key, tie) == CHOOSE x \in S : \A y \in S \ {x} : KeyBefore(key[x], key[y], tie)

RECURSIVE OrderByKey(_, _, _)
RECURSIVE OrderFrom(_, _, _, _)
OrderFrom(S, key, tie, m) == <<m>> \o OrderByKey(S \ {m}, key, tie)

OrderByKey(S, key, tie) == IF S = {} THEN <<>> ELSE OrderFrom(S, key, tie, First(S, key, tie))

OrderRows(S, tie) == OrderByKey(S, [c \in S |-> RowKey(c)], tie)

\* SELECT ... WHERE <section filter> AND c.text LIKE '%' || term || '%' ORDER BY ... LIMIT n
TextRows(section, term, n, tie) ==
    Take(OrderRows({c \in Joined : ScopeFilter(section, PageOf(c)) /\ Like(chunks[c].text, term)},
                   tie), n)

(***************************************************************************)
(* Choices the code leaves open in one call: the order of rows with equal  *)
(* sort keys (tie), the iteration order of Python sets of strings (perm),  *)
(* and the sample drawn by ORDER BY RANDOM() (the fuzzy stage's argument). *)
(***************************************************************************)
IdPerm == <<1, 2, 3>>

Oracle(tie, perm) == [tie |-> tie, perm |-> perm]

Oracles == {Oracle("asc", <<1, 2, 3>>), Oracle("desc", <<3, 2, 1>>), Oracle("asc", <<2, 3, 1>>)}

\* the elements of s in the order perm gives its first three positions
Permute(s, perm) ==
    Flatten([i \in 1..3 |-> IF perm[i] <= Len(s) THEN <<s[perm[i]]>> ELSE <<>>])
        \o Slice(s, 4, Len(s))

Pick(S) == CHOOSE y \in S : TRUE

RECURSIVE SetToSeq(_)
SetToSeq(S) == IF S = {} THEN <<>> ELSE <<Pick(S)>> \o SetToSeq(S \ {Pick(S)})

\* list(set(...)) / iteration of a set
SetOrder(S, o) == Permute(SetToSeq(S), o.perm)

\* the injective sequences of length n over S
Arrangements(S, n) ==
    {q \in [1..n -> S] : \A i, j \in 1..n : i # j => q[i] # q[j]}

(***************************************************************************)
(* Candidates and the four retrieval strategies.                           *)
(***************************************************************************)
NoLinks == [type |-> "", items |-> <<>>]

Candidate(c, score) ==
    [chunk_id |-> c, page_id |-> chunks[c].page_id, score |-> score,
     section |-> PageOf(c).section, api_match |-> 0, is_fallback |-> FALSE,
     source_type |-> "", search_method |-> "", matched_symbol |-> <<>>,
     cross_links |-> NoLinks]

\* result['source_type'] = ..., result['search_method'] = ..., result['matched_symbol'] = ...
Tag(cands, source_type, search_method, symbol) ==
    [i \in 1..Len(cands) |->
        [cands[i] EXCEPT !.source_type = IF source_type = "" THEN @ ELSE source_type,
                         !.search_method = search_method,
                         !.matched_symbol = symbol]]

SEMANTIC_ROW_LIMIT == 100
API_SCORE == Rat(4, 5)
FALLBACK_SCORE == Rat(1, 10)

EmbChoices == {"unavailable", "tied", "ranked"}

\* cosine_similarity(query vector, chunk vector) under the provider's answer emb
cosine_similarity(emb, c) ==
    CASE emb = "tied" -> Rat(4, 5)
      [] emb = "ranked" -> Rat(RowId(c), 10)
      [] OTHER -> Rat(-1, 2)

\* variant: the missing vector is not noticed
get_embedding_unchecked(emb) == TRUE

\* get_embedding: None without a client or when the provider call fails
get_embedding(emb) == emb # "unavailable"

\* candidates.sort(key=score, reverse=True)
SortByScore(cands) == SortDesc(cands, [i \in 1..Len(cands) |-> <<cands[i].score, 0>>])

SemanticRows(section, tie) ==
    Take(OrderByKey({c \in Joined : ScopeFilter(section, PageOf(c)) /\ c \in embeddings},
                    [c \in ChunkIds |-> <<0, 0, RowId(c)>>], tie),
         SEMANTIC_ROW_LIMIT)

SemanticCandidates(rows, emb) ==
    [i \in 1..Len(rows) |-> Candidate(rows[i], cosine_similarity(emb, rows[i]))]

semantic_search(section, top_k, emb, o) ==
    IF ~get_embedding(emb) THEN <<>>
    ELSE Take(SortByScore(SemanticCandidates(SemanticRows(section, o.tie), emb)), top_k)

\* min(text_lower.count(q_lower) / len(text_lower.split()), 1.0)
Ratio(n, w) == IF n >= w THEN Rat(1, 1) ELSE Rat(n, w)

KeywordScore(text, query) == Ratio(Count(LowerStr(text), LowerStr(query)), WordCount(text))

KeywordCandidates(rows, query) ==
    [i \in 1..Len(rows) |-> Candidate(rows[i], KeywordScore(chunks[rows[i]].text, query))]

keyword_search(query, section, top_k, o) ==
    KeywordCandidates(TextRows(section, query, top_k, o.tie), query)

\* list(set(search_terms)): a variant and its lower-case form select the same
\* rows (LIKE folds case), so the order of the variants decides
EachWithLower(v) == Flatten([i \in 1..Len(v) |-> <<v[i], LowerStr(v[i])>>])

SearchTerms(symbol, o) == EachWithLower(Permute(BaseVariants(symbol), o.perm))

OrElse(rows, others) == IF rows # <<>> THEN rows ELSE others

\* the rows of the first term that has any
RECURSIVE FirstRows(_, _, _, _)
FirstRows(terms, section, n, tie) ==
    IF terms = <<>> THEN <<>>
    ELSE OrElse(TextRows(section, Head(terms), n, tie), FirstRows(Tail(terms), section, n, tie))

ApiCandidates(rows) ==
    [i \in 1..Len(rows) |-> [Candidate(rows[i], API_SCORE) EXCEPT !.api_match = 1]]

api_symbol_search(symbol, section, top_k, o) ==
    ApiCandidates(FirstRows(SearchTerms(symbol, o), section, top_k, o.tie))

SamplesOf(S, top_k) == Arrangements(S, Min(top_k, Cardinality(S)))

\* WHERE c.text LIKE '%figma.%' ORDER BY RANDOM() LIMIT top_k: any sample
FuzzySamples(top_k) == SamplesOf({c \in Joined : MentionsFigma(c)}, top_k)

fuzzy_fallback_search(sample) ==
    [i \in 1..Len(sample) |-> [Candidate(sample[i], FALLBACK_SCORE) EXCEPT !.is_fallback = TRUE]]

(***************************************************************************)
(* The cross linker.  Confidences are in tenths.  Snippets are left out:   *)
(* they are computed from the same row as the fields kept here.            *)
(***************************************************************************)
USAGE_LIMIT == 2
SHORT_TEXT == 50
LONG_TEXT == 2000
LINK_LIMIT == 2

Clamp(x) == Min(10, Max(0, x))

Bonus(b, n) == IF b THEN n ELSE 0

\* the atom "fence" stands for a code fence; of the usage indicators only
\* 'const' and '=' occur in the texts of the model
calculate_usage_confidence(text, api_symbol) ==
    IF text = <<>> \/ api_symbol = <<>> THEN 0
    ELSE Clamp(Bonus(In(LowerStr(api_symbol), LowerStr(text)), 5)
               + Bonus(In(<<"const">>, LowerStr(text)), 1)
               + Bonus(In(<<"=">>, LowerStr(text)), 1)
               + Bonus(In(<<"fence">>, text) \/ In(<<"const", " ">>, text), 2)
               - Bonus(StrLen(text) < SHORT_TEXT, 2)
               - Bonus(StrLen(text) > LONG_TEXT, 1))

Example(c, api_symbol) ==
    [chunk_id |-> c, url |-> PageOf(c).url, title |-> PageOf(c).title,
     confidence |-> calculate_usage_confidence(chunks[c].text, api_symbol)]

ExamplesOf(rows, api_symbol) == [i \in 1..Len(rows) |-> Example(rows[i], api_symbol)]

\* examples.sort(key=confidence, reverse=True)
SortByConfidence(ex) == SortDesc(ex, [i \in 1..Len(ex) |-> <<Rat(ex[i].confidence, 10), 0>>])

\* the body of find_community_usage behind its cache
CommunityUsage(api_symbol, limit, o) ==
    Take(SortByConfidence(ExamplesOf(FirstRows(create_search_variants(api_symbol),
                                               "community_plugin", limit, o.tie),
                                     api_symbol)),
         limit)

\* cache_key = f"{api_symbol}_{limit}"
CacheKey(api_symbol, limit) == <<api_symbol, limit>>

find_community_usage(cache, api_symbol, limit, storeFails, o) ==
    IF CacheKey(api_symbol, limit) \in DOMAIN cache THEN cache[CacheKey(api_symbol, limit)]
    ELSE IF storeFails THEN <<>>
    ELSE CommunityUsage(api_symbol, limit, o)

OfficialDocRows(variant) ==
    {c \in Joined : /\ PageOf(c).source = "official"
                    /\ (Like(PageOf(c).title, variant) \/ Like(chunks[c].text, variant))}

\* ORDER BY CASE WHEN p.title LIKE variant ..., CASE WHEN c.text LIKE 'figma.' || variant ...
DocKey(c, variant) ==
    <<IF Like(PageOf(c).title, variant) THEN 1 ELSE 2,
      IF Like(chunks[c].text, FIGMA_DOT \o variant) THEN 1 ELSE 2,
      RowId(c)>>

DocRows(variant, tie) ==
    Take(OrderByKey(OfficialDocRows(variant), [c \in ChunkIds |-> DocKey(c, variant)], tie), 1)

RECURSIVE FirstDoc(_, _)
FirstDoc(variants, tie) ==
    IF variants = <<>> THEN <<>>
    ELSE OrElse(DocRows(Head(variants), tie), FirstDoc(Tail(variants), tie))

Doc(c) == [page_id |-> chunks[c].page_id, title |-> PageOf(c).title, url |-> PageOf(c).url]

DocsOf(rows) == [i \in 1..Len(rows) |-> Doc(rows[i])]

\* a list of no or one document (None or a dict in the code)
find_official_documentation(api_symbol, storeFails, o) ==
    IF storeFails THEN <<>> ELSE DocsOf(FirstDoc(create_search_variants(api_symbol), o.tie))

\* variant: the first example of a chunk is kept
MergeExample_first(acc, ex) ==
    IF \E i \in 1..Len(acc) : acc[i].chunk_id = ex.chunk_id THEN acc ELSE Append(acc, ex)

\* unique_examples[key] = ex when key is new or ex has the higher confidence
MergeExample(acc, ex) ==
    IF \E i \in 1..Len(acc) : acc[i].chunk_id = ex.chunk_id
    THEN [i \in 1..Len(acc) |->
            IF acc[i].chunk_id = ex.chunk_id /\ ex.confidence > acc[i].confidence
            THEN ex ELSE acc[i]]
    ELSE Append(acc, ex)

\* the examples merged in the order found
RECURSIVE UniqueExamples(_, _)
UniqueExamples(examples, acc) ==
    IF examples = <<>> THEN acc
    ELSE UniqueExamples(Tail(examples), MergeExample(acc, Head(examples)))

RECURSIVE UniqueDocs(_, _)
UniqueDocs(docs, acc) ==
    IF docs = <<>> THEN acc
    ELSE UniqueDocs(Tail(docs),
                    IF \E i \in 1..Len(acc) : acc[i].page_id = Head(docs).page_id
                    THEN acc ELSE Append(acc, Head(docs)))

IsOfficialResult(r) == r.section = "plugin" \/ r.source_type = "official_docs"

IsCommunityResult(r) == r.section = "community_plugin"

\* extract_api_symbols_from_content(result text), iterated as a set
LinkSymbols(r, o) == SetOrder(ExtractContentSymbols(chunks[r.chunk_id].text), o)

FoundExamples(symbols, cache, storeFails, o) ==
    Flatten([i \in 1..Len(symbols) |->
                find_community_usage(cache, symbols[i], USAGE_LIMIT, storeFails, o)])

FoundDocs(symbols, storeFails, o) ==
    Flatten([i \in 1..Len(symbols) |-> find_official_documentation(symbols[i], storeFails, o)])

\* variant: the merged examples are not cut
CommunityBundle_uncut(found) ==
    IF found = <<>> THEN NoLinks
    ELSE [type |-> "community_examples",
          items |-> SortByConfidence(UniqueExamples(found, <<>>))]

CommunityBundle(found) ==
    IF found = <<>> THEN NoLinks
    ELSE [type |-> "community_examples",
          items |-> Take(SortByConfidence(UniqueExamples(found, <<>>)), LINK_LIMIT)]

OfficialBundle(docs) ==
    IF docs = <<>> THEN NoLinks
    ELSE [type |-> "official_documentation", items |-> Take(UniqueDocs(docs, <<>>), LINK_LIMIT)]

\* the bundle of one result, given the symbols of its text
CrossLinksFor(r, symbols, cache, storeFails, o) ==
    IF IsOfficialResult(r)
    THEN CommunityBundle(FoundExamples(symbols, cache, storeFails, o))
    ELSE IF IsCommunityResult(r)
    THEN OfficialBundle(FoundDocs(symbols, storeFails, o))
    ELSE NoLinks

CrossLinksOf(r, cache, storeFails, o) ==
    CrossLinksFor(r, LinkSymbols(r, o), cache, storeFails, o)

add_cross_links(results, cache, storeFails, o) ==
    [i \in 1..Len(results) |->
        [results[i] EXCEPT !.cross_links = CrossLinksOf(results[i], cache, storeFails, o)]]

\* the keys find_community_usage is called with for these results
UsageKeys(results) ==
    {CacheKey(s, USAGE_LIMIT) :
        s \in UNION {ExtractContentSymbols(chunks[results[i].chunk_id].text) :
                        i \in {j \in 1..Len(results) : IsOfficialResult(results[j])}}}

\* self._community_usage_cache[cache_key] = result, on the success path only
CacheWith(keys, cache, storeFails, o) ==
    IF storeFails THEN cache
    ELSE [k \in DOMAIN cache \cup keys |->
            IF k \in DOMAIN cache THEN cache[k] ELSE CommunityUsage(k[1], k[2], o)]

CacheAfterLinks(results, cache, storeFails, o) ==
    CacheWith(UsageKeys(results), cache, storeFails, o)

(***************************************************************************)
(* The symbol cache of the cross linker.  extract_api_symbols_from_content *)
(* keys it by hash(content[:500]); the hash is taken as injective, so the  *)
(* key is the prefix itself: the atoms wholly inside it and the atom the   *)
(* cut falls in.  A text shorter than SYMBOL_KEY_LEN is its own key, and   *)
(* for it a hit returns what extraction computes (LinkSymbols above).      *)
(***************************************************************************)
SYMBOL_KEY_LEN == 500

RECURSIVE ContentPrefix(_, _)
ContentPrefix(content, n) ==
    IF content = <<>> \/ n = 0 THEN [whole |-> <<>>, cut |-> "", cut_len |-> 0]
    ELSE IF CharLen(Head(content)) <= n
    THEN [ContentPrefix(Tail(content), n - CharLen(Head(content))) EXCEPT
            !.whole = <<Head(content)>> \o @]
    ELSE [whole |-> <<>>, cut |-> Head(content), cut_len |-> n]

content_hash(content) == ContentPrefix(content, SYMBOL_KEY_LEN)

\* if content_hash in self._api_symbol_cache: return the cached set
extract_api_symbols_from_content(symbols, content) ==
    IF content = <<>> THEN {}
    ELSE IF content_hash(content) \in DOMAIN symbols THEN symbols[content_hash(content)]
    ELSE ExtractContentSymbols(content)

\* self._api_symbol_cache[content_hash] = normalized_symbols
SymbolCachePut(symbols, content) ==
    IF content = <<>> \/ content_hash(content) \in DOMAIN symbols THEN symbols
    ELSE [k \in DOMAIN symbols \cup {content_hash(content)} |->
            IF k \in DOMAIN symbols THEN symbols[k] ELSE ExtractContentSymbols(content)]

\* the symbol cache after the first loop of add_cross_links over the results
RECURSIVE SymbolCacheAfter(_, _)
SymbolCacheAfter(results, symbols) ==
    IF results = <<>> THEN symbols
    ELSE SymbolCacheAfter(Tail(results),
                          SymbolCachePut(symbols, chunks[Head(results).chunk_id].text))

\* the later loops read the symbols of a result from the cache
CachedLinkSymbols(r, symbols, o) ==
    SetOrder(extract_api_symbols_from_content(symbols, chunks[r.chunk_id].text), o)

\* add_cross_links over the caches of the process; symbols is the symbol
\* cache after the first loop
add_cross_links_cached(results, cache, symbols, storeFails, o) ==
    [i \in 1..Len(results) |->
        [results[i] EXCEPT !.cross_links =
            CrossLinksFor(results[i], CachedLinkSymbols(results[i], symbols, o),
                          cache, storeFails, o)]]

CachedUsageKeys(results, symbols) ==
    {CacheKey(s, USAGE_LIMIT) :
        s \in UNION {extract_api_symbols_from_content(symbols, chunks[results[i].chunk_id].text) :
                        i \in {j \in 1..Len(results) : IsOfficialResult(results[j])}}}

(***************************************************************************)
(* The retrieval cascade.  acc = [all_results, search_strategy] is the     *)
(* pair of lists unified_search builds up stage by stage.                  *)
(***************************************************************************)
MAX_SYMBOLS == 2
MIN_SEMANTIC == 3
SYMBOL_TOP_K == 2

\* one entry f"{stage}({count})" of search_strategy
Trace(stage, symbol, count) == [stage |-> stage, symbol |-> symbol, count |-> count]

NewAcc == [all_results |-> <<>>, search_strategy |-> <<>>]

\* variant: the entry counts the list accumulated so far
Extend_running(acc, stage, symbol, cands, reports) ==
    [all_results |-> acc.all_results \o cands,
     search_strategy |->
        IF reports
        THEN Append(acc.search_strategy, Trace(stage, symbol, Len(acc.all_results \o cands)))
        ELSE acc.search_strategy]

\* all_results.extend(cands); search_strategy.append(...) when the stage reports
Extend(acc, stage, symbol, cands, reports) ==
    [all_results |-> acc.all_results \o cands,
     search_strategy |->
        IF reports THEN Append(acc.search_strategy, Trace(stage, symbol, Len(cands)))
        ELSE acc.search_strategy]

ExtendIfAny(acc, stage, symbol, cands) == Extend(acc, stage, symbol, cands, cands # <<>>)

\* api_symbols = list(set(symbols))
ApiSymbols(query, o) == SetOrder(extract_api_symbols_from_query(query), o)

\* Step 1: semantic search in the official corpus
Step1(section, top_k, emb, o, acc) ==
    IF section \in {"auto", "official"}
    THEN ExtendIfAny(acc, "semantic_official", <<>>,
                     Tag(semantic_search("official", top_k, emb, o),
                         "official_docs", "semantic", <<>>))
    ELSE acc

\* variant: the community query asks for what is missing to reach top_k
Step2_exact(section, top_k, emb, o, acc) ==
    IF Len(acc.all_results) < MIN_SEMANTIC /\ section \in {"auto", "community_plugin"}
    THEN ExtendIfAny(acc, "semantic_community", <<>>,
                     Tag(semantic_search("community_plugin",
                                         top_k - Len(acc.all_results), emb, o),
                         "community_code", "semantic", <<>>))
    ELSE acc

\* Step 2: semantic search in the community corpus when results are few
Step2(section, top_k, emb, o, acc) ==
    IF Len(acc.all_results) < MIN_SEMANTIC /\ section \in {"auto", "community_plugin"}
    THEN ExtendIfAny(acc, "semantic_community", <<>>,
                     Tag(semantic_search("community_plugin",
                                         Max(3, top_k - Len(acc.all_results)), emb, o),
                         "community_code", "semantic", <<>>))
    ELSE acc

SymbolHits(symbol, o) ==
    Tag(api_symbol_search(symbol, "official", SYMBOL_TOP_K, o),
        "api_reference", "api_symbol", symbol)
    \o Tag(api_symbol_search(symbol, "community_plugin", SYMBOL_TOP_K, o),
           "community_code", "api_symbol", symbol)

\* Step 3: for symbol in api_symbols[:2]
RECURSIVE SymbolStage(_, _, _)
SymbolStage(symbols, o, acc) ==
    IF symbols = <<>> THEN acc
    ELSE SymbolStage(Tail(symbols), o,
                     ExtendIfAny(acc, "api_symbol", Head(symbols), SymbolHits(Head(symbols), o)))

Step3(query, o, acc) == SymbolStage(Take(ApiSymbols(query, o), MAX_SYMBOLS), o, acc)

KeywordResults(query, section, top_k, o) ==
    IF section = "auto"
    THEN OrElse(keyword_search(query, "official", top_k, o),
                keyword_search(query, "community_plugin", top_k, o))
    ELSE keyword_search(query, section, top_k, o)

\* variant: the keyword stage runs whatever has accumulated
Step4_always(query, section, top_k, o, acc) ==
    Extend(acc, "keyword", <<>>,
           Tag(KeywordResults(query, section, top_k, o), "", "keyword", <<>>), TRUE)

\* Step 4: keyword fallback
Step4(query, section, top_k, o, acc) ==
    IF Len(acc.all_results) = 0
    THEN Extend(acc, "keyword", <<>>,
                Tag(KeywordResults(query, section, top_k, o), "", "keyword", <<>>), TRUE)
    ELSE acc

\* variant: no fuzzy fallback
Step5_skipped(sample, acc) == acc

\* Step 5: fuzzy fallback
Step5(sample, acc) ==
    IF Len(acc.all_results) = 0
    THEN Extend(acc, "fuzzy_fallback", <<>>,
                Tag(fuzzy_fallback_search(sample), "", "fuzzy_fallback", <<>>), TRUE)
    ELSE acc

\* the cascade up to and including the keyword stage
Cascade(query, section, top_k, emb, o) ==
    Step4(query, section, top_k, o,
          Step3(query, o,
                Step2(section, top_k, emb, o,
                      Step1(section, top_k, emb, o, NewAcc))))

\* variant: duplicates are kept
unique_results_kept(all, seen) == all

\* variant: the last occurrence of each chunk_id is kept
RECURSIVE unique_results_last(_, _)
unique_results_last(all, seen) ==
    IF all = <<>> THEN <<>>
    ELSE IF \E i \in 2..Len(all) : all[i].chunk_id = Head(all).chunk_id
    THEN unique_results_last(Tail(all), seen)
    ELSE <<Head(all)>> \o unique_results_last(Tail(all), seen)

\* first occurrence of each chunk_id
RECURSIVE unique_results(_, _)
unique_results(all, seen) ==
    IF all = <<>> THEN <<>>
    ELSE IF Head(all).chunk_id \in seen THEN unique_results(Tail(all), seen)
    ELSE <<Head(all)>> \o unique_results(Tail(all), seen \cup {Head(all).chunk_id})

\* variant: sorted by score alone
sort_results_by_score(rs) == SortDesc(rs, [i \in 1..Len(rs) |-> <<rs[i].score, 0>>])

\* unique_results.sort(key=lambda x: (x['score'], x.get('api_match', False)), reverse=True)
sort_results(rs) == SortDesc(rs, [i \in 1..Len(rs) |-> <<rs[i].score, rs[i].api_match>>])

\* final_results = unique_results[:top_k]
final_results(all_results, top_k) == Take(sort_results(unique_results(all_results, {})), top_k)

\* Step 7: source_type when no stage has set it
derive_source_type(r) ==
    IF r.source_type # "" THEN r.source_type
    ELSE IF r.section = "plugin" THEN "official_docs"
    ELSE IF r.section = "community_plugin" THEN "community_code"
    ELSE IF r.api_match = 1 THEN "api_reference"
    ELSE IF pages[r.page_id].url = "figma.com/plugin-docs" THEN "official_docs"
    ELSE IF pages[r.page_id].url = "github.com" THEN "community_code"
    ELSE "other"

WithSourceType(rs) == [i \in 1..Len(rs) |-> [rs[i] EXCEPT !.source_type = derive_source_type(rs[i])]]

(***************************************************************************)
(* Store failures.  In one call the store access of one stage may raise.   *)
(* The four retrieval strategies have no handler of their own and          *)
(* unified_search has none around its calls, so the exception leaves       *)
(* unified_search; the cross linker catches its own.                       *)
(***************************************************************************)
FailStages == {"none", "semantic", "symbol", "keyword", "fuzzy", "crosslink"}

Ran(acc, stage) == \E i \in 1..Len(acc.search_strategy) : acc.search_strategy[i].stage = stage

\* semantic_search opens the store only with a query vector; the keyword and
\* fuzzy stages report whenever they run
Raises(query, emb, fail, o, acc) ==
    \/ fail = "semantic" /\ get_embedding(emb)
    \/ fail = "symbol" /\ ApiSymbols(query, o) # <<>>
    \/ fail = "keyword" /\ Ran(acc, "keyword")
    \/ fail = "fuzzy" /\ Ran(acc, "fuzzy_fallback")

Request(query, section, top_k, emb, fail, o) ==
    [query |-> query, section |-> section, top_k |-> top_k, emb |-> emb, fail |-> fail, o |-> o]

\* the exception reaches the caller of unified_search
Raised(req) ==
    [kind |-> "search", raised |-> TRUE, req |-> req, results |-> <<>>,
     search_strategy |-> <<>>, total_found |-> 0, api_symbols_detected |-> <<>>]

Returned(req, acc, final) ==
    [kind |-> "search", raised |-> FALSE, req |-> req,
     results |-> WithSourceType(final),
     search_strategy |-> acc.search_strategy,
     total_found |-> Len(acc.all_results),
     api_symbols_detected |-> ApiSymbols(req.query, req.o)]

\* the value of unified_search, given the lists of the five stages
unified_search(req, acc, cache) ==
    IF Raises(req.query, req.emb, req.fail, req.o, acc) THEN Raised(req)
    ELSE Returned(req, acc,
                  add_cross_links(final_results(acc.all_results, req.top_k), cache,
                                  req.fail = "crosslink", req.o))

\* the community-usage cache after the call
cache_after_search(req, acc, cache) ==
    IF Raises(req.query, req.emb, req.fail, req.o, acc) THEN cache
    ELSE CacheAfterLinks(final_results(acc.all_results, req.top_k), cache,
                         req.fail = "crosslink", req.o)

(***************************************************************************)
(* The content expander.  Identifiers are strings; IdChars gives their     *)
(* characters, on which the prefix id_string[:8], the LIKE filter and the  *)
(* UUID shape are computed.                                                *)
(***************************************************************************)
ABSENT_PLAIN == "zz"
ABSENT_NEAR == "chunk0009"
ABSENT_UUID == "00000000-0000-0000-0000-000000000000"

\* the identifiers a caller passes: pages, chunks, and three that are neither
ExpandIds == {"p1", "p2", "p0", "c4", "c1", "c2", "c3", "chunk0005",
              ABSENT_PLAIN, ABSENT_NEAR, ABSENT_UUID}

ExpandTypes == {"auto", "page", "chunk"}

Zeros(n) == [i \in 1..n |-> "0"]

IdChars(id) ==
    CASE id = "p1" -> <<"p", "1">>
      [] id = "p2" -> <<"p", "2">>
      [] id = "p0" -> <<"p", "0">>
      [] id = "c1" -> <<"c", "1">>
      [] id = "c2" -> <<"c", "2">>
      [] id = "c3" -> <<"c", "3">>
      [] id = "c4" -> <<"c", "4">>
      [] id = "chunk0005" -> <<"c", "h", "u", "n", "k", "0", "0", "0", "5">>
      [] id = "chunk0009" -> <<"c", "h", "u", "n", "k", "0", "0", "0", "9">>
      [] id = "zz" -> <<"z", "z">>
      [] OTHER -> Zeros(8) \o <<"-">> \o Zeros(4) \o <<"-">> \o Zeros(4) \o <<"-">>
                    \o Zeros(4) \o <<"-">> \o Zeros(12)

HexChars == {"0", "1", "2", "3", "4", "5", "6", "7", "8", "9", "a", "b", "c", "d", "e", "f"}

UUID_HEX_LEN == 32
PREFIX_LEN == 8

NoHyphens(cs) == Filter(cs, [i \in 1..Len(cs) |-> cs[i] # "-"])

AllHex(cs) == \A i \in 1..Len(cs) : cs[i] \in HexChars

\* uuid.UUID(id_string) does not raise ValueError
IsUuid(id) == Len(NoHyphens(IdChars(id))) = UUID_HEX_LEN /\ AllHex(NoHyphens(IdChars(id)))

\* c.chunk_id LIKE '%' || id_string[:8] || '%'
PartialRows(id) == {c \in Joined : In(Take(IdChars(id), PREFIX_LEN), IdChars(c))}

ExpandFails == {"none", "detect", "page", "chunk", "partial"}

\* variant: the chunk table is asked before the page table
detect_id_type_chunk_first(id, fail) ==
    IF fail = "detect" THEN "chunk"
    ELSE IF id \in DOMAIN chunks THEN "chunk"
    ELSE IF id \in DOMAIN pages THEN "page"
    ELSE IF IsUuid(id) THEN "chunk"
    ELSE "page"

detect_id_type(id, fail) ==
    IF fail = "detect" THEN "chunk"
    ELSE IF id \in DOMAIN pages THEN "page"
    ELSE IF id \in DOMAIN chunks THEN "chunk"
    ELSE IF IsUuid(id) THEN "chunk"
    ELSE "page"

NoData == [type |-> "none"]

\* the chunks of a page with chunk_index in lo..hi, ORDER BY chunk_index ASC
ChunksBetween(page_id, lo, hi) ==
    OrderByKey({c \in DOMAIN chunks : /\ chunks[c].page_id = page_id
                                      /\ chunks[c].chunk_index \in lo..hi},
               [c \in ChunkIds |-> <<chunks[c].chunk_index, 0, RowId(c)>>], "asc")

\* variant: the rows of the page come latest first
PageChunks_latest_first(page_id) ==
    OrderByKey({c \in DOMAIN chunks : chunks[c].page_id = page_id},
               [c \in ChunkIds |-> <<0, 0, RowId(c)>>], "desc")

PageChunks(page_id) ==
    OrderByKey({c \in DOMAIN chunks : chunks[c].page_id = page_id},
               [c \in ChunkIds |-> <<chunks[c].chunk_index, 0, RowId(c)>>], "asc")

\* "\n\n".join(texts); the atom "BLANKLINE" is the separator
RECURSIVE JoinTexts(_)
JoinTexts(texts) ==
    IF texts = <<>> THEN <<>>
    ELSE IF Len(texts) = 1 THEN Head(texts)
    ELSE Head(texts) \o <<"BLANKLINE">> \o JoinTexts(Tail(texts))

TextsOf(cs) == [i \in 1..Len(cs) |-> chunks[cs[i]].text]

PageData(page_id, cs) ==
    [type |-> "page", page_id |-> page_id, title |-> pages[page_id].title,
     total_chunks |-> Len(cs), content |-> JoinTexts(TextsOf(cs)),
     chunks_info |-> [i \in 1..Len(cs) |->
                        [chunk_id |-> cs[i], chunk_index |-> chunks[cs[i]].chunk_index]]]

\* variant: a page row without chunks is answered as page data
expand_by_page_id_unchecked(page_id, fail) ==
    IF fail = "page" \/ page_id \notin DOMAIN pages THEN NoData
    ELSE PageData(page_id, PageChunks(page_id))

\* NoData stands for None
expand_by_page_id(page_id, fail) ==
    IF fail = "page" \/ page_id \notin DOMAIN pages \/ PageChunks(page_id) = <<>> THEN NoData
    ELSE PageData(page_id, PageChunks(page_id))

\* variant: the position in the page instead of the position in the window
PositionInPage(cs, chunk_id) == chunks[chunk_id].chunk_index

\* position of chunk_id in the context rows, from 0; -1 stands for None
PositionIn(cs, chunk_id) ==
    IF \E i \in 1..Len(cs) : cs[i] = chunk_id
    THEN (CHOOSE i \in 1..Len(cs) : cs[i] = chunk_id /\ \A j \in 1..(i - 1) : cs[j] # chunk_id) - 1
    ELSE -1

ChunkData(chunk_id, row, start_index, end_index, cs) ==
    [type |-> "chunk", chunk_id |-> chunk_id, page_id |-> row.page_id,
     target_chunk_index |-> row.chunk_index, total_chunks_in_page |-> row.chunk_of,
     context_start_index |-> start_index, context_end_index |-> end_index,
     target_position_in_context |-> PositionIn(cs, chunk_id),
     expanded_content |-> JoinTexts(TextsOf(cs)),
     context_chunks |-> [i \in 1..Len(cs) |->
                           [chunk_id |-> cs[i], chunk_index |-> chunks[cs[i]].chunk_index,
                            is_target |-> cs[i] = chunk_id]],
     has_prev |-> row.chunk_index > 0,
     has_next |-> row.chunk_index < row.chunk_of - 1]

ChunkWindow(chunk_id, row, start_index, end_index) ==
    IF ChunksBetween(row.page_id, start_index, end_index) = <<>> THEN NoData
    ELSE ChunkData(chunk_id, row, start_index, end_index,
                   ChunksBetween(row.page_id, start_index, end_index))

\* variant: the end of the range is not cut at the last chunk of the page
expand_by_chunk_id_unclamped(chunk_id, context_window, fail) ==
    IF fail = "chunk" \/ chunk_id \notin Joined THEN NoData
    ELSE ChunkWindow(chunk_id, chunks[chunk_id],
                     Max(0, chunks[chunk_id].chunk_index - context_window),
                     chunks[chunk_id].chunk_index + context_window)

expand_by_chunk_id(chunk_id, context_window, fail) ==
    IF fail = "chunk" \/ chunk_id \notin Joined THEN NoData
    ELSE ChunkWindow(chunk_id, chunks[chunk_id],
                     Max(0, chunks[chunk_id].chunk_index - context_window),
                     Min(chunks[chunk_id].chunk_of - 1,
                         chunks[chunk_id].chunk_index + context_window))

ExpandAs(type, id, context_window, fail) ==
    IF type = "page" THEN expand_by_page_id(id, fail)
    ELSE expand_by_chunk_id(id, context_window, fail)

MethodOf(type) == IF type = "page" THEN "page_expansion" ELSE "chunk_expansion"

OtherType(type) == IF type = "page" THEN "chunk" ELSE "page"

\* the rows the partial match may answer with (LIMIT 1 without an order)
PartialPicks(id, fail) == IF fail = "partial" THEN {} ELSE PartialRows(id)

ExpandRequest(id, type, context_window, fail) ==
    [id |-> id, type |-> type, context_window |-> context_window, fail |-> fail]

\* tried lists the methods in the order they were attempted
Expanded(req, data, method, fallback_used, tried) ==
    [kind |-> "expand", req |-> req, success |-> TRUE, data |-> data,
     method_used |-> method, fallback_used |-> fallback_used,
     auto_detected |-> req.type = "auto", has_auto_detected |-> method # "partial_match_fallback",
     attempted_methods |-> <<>>, id |-> "", tried |-> tried]

\* variant: the failure names only the two typed attempts
NotExpanded_typed_only(req, expand_type, tried) ==
    [kind |-> "expand", req |-> req, success |-> FALSE, data |-> NoData,
     method_used |-> "", fallback_used |-> FALSE,
     auto_detected |-> req.type = "auto", has_auto_detected |-> TRUE,
     attempted_methods |-> <<expand_type, OtherType(expand_type)>>,
     id |-> req.id, tried |-> tried]

NotExpanded(req, expand_type, tried) ==
    [kind |-> "expand", req |-> req, success |-> FALSE, data |-> NoData,
     method_used |-> "", fallback_used |-> FALSE,
     auto_detected |-> req.type = "auto", has_auto_detected |-> TRUE,
     attempted_methods |-> <<expand_type, OtherType(expand_type), "partial_match">>,
     id |-> req.id, tried |-> tried]

PartialData(c) == [type |-> "partial_match", chunk_id |-> c, content |-> chunks[c].text]

\* third attempt: pick is the row the store answers with, "" when it has none
PartialAttempt(req, expand_type, pick) ==
    IF pick # ""
    THEN Expanded(req, PartialData(pick), "partial_match_fallback", TRUE,
                  <<expand_type, OtherType(expand_type), "partial_match">>)
    ELSE NotExpanded(req, expand_type, <<expand_type, OtherType(expand_type), "partial_match">>)

\* variant: a success of the second attempt is not flagged
FallbackAttempt_unflagged(req, expand_type, pick, second) ==
    IF second # NoData
    THEN Expanded(req, second, MethodOf(OtherType(expand_type)), FALSE,
                  <<expand_type, OtherType(expand_type)>>)
    ELSE PartialAttempt(req, expand_type, pick)

\* second attempt: the other type
FallbackAttempt(req, expand_type, pick, second) ==
    IF second # NoData
    THEN Expanded(req, second, MethodOf(OtherType(expand_type)), TRUE,
                  <<expand_type, OtherType(expand_type)>>)
    ELSE PartialAttempt(req, expand_type, pick)

\* first attempt: the resolved type
FirstAttempt(req, expand_type, pick, first) ==
    IF first # NoData
    THEN Expanded(req, first, MethodOf(expand_type), FALSE, <<expand_type>>)
    ELSE FallbackAttempt(req, expand_type, pick,
                         ExpandAs(OtherType(expand_type), req.id, req.context_window, req.fail))

ResolvedType(req) == IF req.type = "auto" THEN detect_id_type(req.id, req.fail) ELSE req.type

universal_expand(req, pick) ==
    FirstAttempt(req, ResolvedType(req), pick,
                 ExpandAs(ResolvedType(req), req.id, req.context_window, req.fail))

\* what the partial match can answer when the first two attempts fail
Picks(req) ==
    IF PartialPicks(req.id, req.fail) = {} THEN {""} ELSE PartialPicks(req.id, req.fail)

(***************************************************************************)
(* Query normalizer (query_normalizer.py).  Its strings are sequences of   *)
(* single characters.                                                      *)
(***************************************************************************)
LOWER == <<"a", "b", "c", "d", "e", "f", "g", "h", "i", "j", "k", "l", "m",
          "n", "o", "p", "q", "r", "s", "t", "u", "v", "w", "x", "y", "z">>

UPPER == <<"A", "B", "C", "D", "E", "F", "G", "H", "I", "J", "K", "L", "M",
          "N", "O", "P", "Q", "R", "S", "T", "U", "V", "W", "X", "Y", "Z">>

LowerChars == SeqToSet(LOWER)

UpperChars == SeqToSet(UPPER)

LowerChar(c) ==
    IF c \in UpperChars THEN LOWER[CHOOSE i \in 1..Len(UPPER) : UPPER[i] = c] ELSE c

UpperChar(c) ==
    IF c \in LowerChars THEN UPPER[CHOOSE i \in 1..Len(LOWER) : LOWER[i] = c] ELSE c

IsUpper(c) == c \in UpperChars

IsLower(c) == c \in LowerChars

lower(s) == [i \in 1..Len(s) |-> LowerChar(s[i])]

RECURSIVE lstrip(_)
lstrip(s) == IF s # <<>> /\ Head(s) = " " THEN lstrip(Tail(s)) ELSE s

RECURSIVE rstrip(_)
rstrip(s) == IF s # <<>> /\ s[Len(s)] = " " THEN rstrip(SubSeq(s, 1, Len(s) - 1)) ELSE s

strip(s) == rstrip(lstrip(s))

S_AB == <<"a", "b">>
S_B == <<"b">>
S_XABY == <<"x", "a", "b", "y">>
S_CAMEL == <<"a", "B">>
S_SNAKE == <<"a", "_", "b">>
S_UPPER == <<"A", "B">>
S_PADDED == <<" ", "A", "B", " ">>
S_API == <<"f", "i", "g", "m", "a", ".", "a", "B">>
S_NESTED == <<"f", "i", "g", "m", "a", ".", "u", "i", ".", "a", "B">>
S_TITLE == <<"f", "i", "g", "m", "a", ".", "A", "b">>
S_MIXED == <<"A", "_", "b">>
S_HUMP == <<"a", "B", "c">>
S_OTHER == <<"c", "c">>

\* the queries a caller passes
NormQueries ==
    {<<>>, <<"a">>, S_AB, S_B, <<"a", "b", "y">>, S_CAMEL, S_SNAKE, S_UPPER, S_PADDED,
     <<" ", "a", "b", " ">>, S_API, S_NESTED, S_TITLE, S_MIXED, S_HUMP, S_OTHER}

\* an entry of a category: alias -> canonical; is_str is false for a key that
\* YAML reads as a number
Entry(alias, canonical) == [is_str |-> TRUE, alias |-> alias, canonical |-> canonical]

NumberEntry(canonical) == [is_str |-> FALSE, alias |-> <<>>, canonical |-> canonical]

\* a category: a mapping of entries, or a scalar
Category(entries) == [is_dict |-> TRUE, entries |-> entries]

ScalarCategory == [is_dict |-> FALSE, entries |-> <<>>]

\* the alias file: absent, unparsable, empty (None), a list, or a mapping
AliasFile(kind, categories) == [kind |-> kind, categories |-> categories]

BrokenKinds == {"absent", "unparsable", "empty", "list"}

AliasFiles ==
    {AliasFile(k, <<>>) : k \in BrokenKinds}
    \cup {AliasFile("mapping", cats) : cats \in
           { <<Category(<<Entry(S_AB, S_API), Entry(S_XABY, S_NESTED), Entry(S_B, S_AB)>>)>>,
             <<ScalarCategory, Category(<<Entry(S_PADDED, S_SNAKE)>>)>>,
             <<Category(<<Entry(S_AB, S_API), NumberEntry(S_AB), Entry(S_B, S_AB)>>),
               Category(<<Entry(S_XABY, S_NESTED)>>)>>,
             <<Category(<<NumberEntry(S_AB), Entry(S_B, S_AB)>>)>>,
             <<Category(<<Entry(S_AB, S_UPPER)>>),
               Category(<<Entry(S_UPPER, S_SNAKE), Entry(S_B, S_TITLE)>>)>>,
             <<>> }}

HasKey(table, key) == \E i \in 1..Len(table) : table[i].key = key

Get(table, key) == table[CHOOSE i \in 1..Len(table) : table[i].key = key].canonical

\* self.aliases[key] = canonical: a dict keeps the position of a key it has
Put(table, key, canonical) ==
    IF HasKey(table, key)
    THEN [i \in 1..Len(table) |->
            IF table[i].key = key THEN [key |-> key, canonical |-> canonical] ELSE table[i]]
    ELSE Append(table, [key |-> key, canonical |-> canonical])

\* the entries of one category, up to the first key that has no lower()
RECURSIVE LoadEntries(_, _)
LoadEntries(table, entries) ==
    IF entries = <<>> THEN [table |-> table, raised |-> FALSE]
    ELSE IF ~Head(entries).is_str THEN [table |-> table, raised |-> TRUE]
    ELSE LoadEntries(Put(table, strip(lower(Head(entries).alias)), Head(entries).canonical),
                     Tail(entries))

RECURSIVE LoadCategories(_, _)
LoadRest(loaded, cats) ==
    IF loaded.raised THEN loaded.table ELSE LoadCategories(loaded.table, cats)

LoadCategories(table, cats) ==
    IF cats = <<>> THEN table
    ELSE IF ~Head(cats).is_dict THEN LoadCategories(table, Tail(cats))
    ELSE LoadRest(LoadEntries(table, Head(cats).entries), Tail(cats))

\* the table after construction: what was read before the load stopped
load_aliases(file) ==
    IF file.kind # "mapping" THEN <<>> ELSE LoadCategories(<<>>, file.categories)

Distance(key, query_lower) ==
    IF Len(key) >= Len(query_lower) THEN Len(key) - Len(query_lower)
    ELSE Len(query_lower) - Len(key)

MatchingKeys(table, query_lower) ==
    Filter([i \in 1..Len(table) |-> table[i].key],
           [i \in 1..Len(table) |-> In(query_lower, table[i].key) \/ In(table[i].key, query_lower)])

Without(s, i) == SubSeq(s, 1, i - 1) \o SubSeq(s, i + 1, Len(s))

Nearest(keys, query_lower) ==
    CHOOSE i \in 1..Len(keys) : \A j \in 1..Len(keys) :
        \/ Distance(keys[i], query_lower) < Distance(keys[j], query_lower)
        \/ Distance(keys[i], query_lower) = Distance(keys[j], query_lower) /\ i <= j

\* list.sort(key=abs(len(x) - len(query_lower))): equal keys keep their order
RECURSIVE SortByDistance(_, _)
SortByDistance(keys, query_lower) ==
    IF keys = <<>> THEN <<>>
    ELSE <<keys[Nearest(keys, query_lower)]>>
         \o SortByDistance(Without(keys, Nearest(keys, query_lower)), query_lower)

find_partial_matches(table, query_lower) ==
    SortByDistance(MatchingKeys(table, query_lower), query_lower)

FIGMA_PREFIX == <<"f", "i", "g", "m", "a", ".">>

\* s.split(sep) for a one-character sep
RECURSIVE SplitAt(_, _)
SplitAt(s, sep) ==
    IF \A i \in 1..Len(s) : s[i] # sep THEN <<s>>
    ELSE <<SubSeq(s, 1, (CHOOSE i \in 1..Len(s) : s[i] = sep /\ \A j \in 1..(i - 1) : s[j] # sep) - 1)>>
         \o SplitAt(SubSeq(s, (CHOOSE i \in 1..Len(s) : s[i] = sep /\ \A j \in 1..(i - 1) : s[j] # sep) + 1,
                           Len(s)), sep)

capitalize(w) == IF w = <<>> THEN <<>> ELSE <<UpperChar(Head(w))>> \o lower(Tail(w))

to_camel_case(s) ==
    Head(SplitAt(s, "_"))
    \o Flatten([i \in 1..(Len(SplitAt(s, "_")) - 1) |-> capitalize(SplitAt(s, "_")[i + 1])])

\* the last index of the run of lowercase letters that starts at i
RECURSIVE LowerRunEnd(_, _)
LowerRunEnd(s, i) == IF i + 1 <= Len(s) /\ IsLower(s[i + 1]) THEN LowerRunEnd(s, i + 1) ELSE i

\* re.sub('(.)([A-Z][a-z]+)', r'\1_\2', s), scanning from position i
RECURSIVE SplitWords(_, _)
SplitWords(s, i) ==
    IF i > Len(s) THEN <<>>
    ELSE IF i + 2 <= Len(s) /\ IsUpper(s[i + 1]) /\ IsLower(s[i + 2])
         THEN <<s[i], "_">> \o SubSeq(s, i + 1, LowerRunEnd(s, i + 2))
              \o SplitWords(s, LowerRunEnd(s, i + 2) + 1)
         ELSE <<s[i]>> \o SplitWords(s, i + 1)

\* re.sub('([a-z0-9])([A-Z])', r'\1_\2', s), scanning from position i
RECURSIVE SplitHumps(_, _)
SplitHumps(s, i) ==
    IF i > Len(s) THEN <<>>
    ELSE IF i + 1 <= Len(s) /\ IsLower(s[i]) /\ IsUpper(s[i + 1])
         THEN <<s[i], "_", s[i + 1]>> \o SplitHumps(s, i + 2)
         ELSE <<s[i]>> \o SplitHumps(s, i + 1)

to_snake_case(s) == lower(SplitHumps(SplitWords(s, 1), 1))

WithoutPrefix(term) == SubSeq(term, Len(FIGMA_PREFIX) + 1, Len(term))

PrefixVariations(term) ==
    IF ~StartsWith(term, FIGMA_PREFIX) THEN <<>>
    ELSE <<WithoutPrefix(term)>>
         \o (IF In(<<".">>, WithoutPrefix(term))
             THEN <<SubSeq(WithoutPrefix(term), LastDot(WithoutPrefix(term)) + 1,
                           Len(WithoutPrefix(term)))>>
             ELSE <<>>)

generate_variations(term) ==
    PrefixVariations(term)
    \o (IF In(<<"_">>, term) THEN <<to_camel_case(term)>> ELSE <<>>)
    \o (IF \E i \in 1..Len(term) : IsUpper(term[i]) THEN <<to_snake_case(term)>> ELSE <<>>)

\* the terms not seen before and different from the canonical term, in order
RECURSIVE UniqueAdditional(_, _, _)
UniqueAdditional(terms, seen, normalized_query) ==
    IF terms = <<>> THEN <<>>
    ELSE IF Head(terms) \in seen \/ Head(terms) = normalized_query
         THEN UniqueAdditional(Tail(terms), seen, normalized_query)
         ELSE <<Head(terms)>>
              \o UniqueAdditional(Tail(terms), seen \cup {Head(terms)}, normalized_query)

Normalized(normalized_query, additional_terms) ==
    [canonical |-> normalized_query,
     alternates |-> UniqueAdditional(additional_terms \o generate_variations(normalized_query),
                                     {}, normalized_query)]

PartiallyNormalized(table, original_query, partial_matches) ==
    IF partial_matches = <<>> THEN Normalized(original_query, <<>>)
    ELSE Normalized(Get(table, partial_matches[1]), <<original_query, partial_matches[1]>>)

normalize_query(table, query) ==
    IF HasKey(table, lower(strip(query)))
    THEN Normalized(Get(table, lower(strip(query))), <<strip(query)>>)
    ELSE PartiallyNormalized(table, strip(query),
                             find_partial_matches(table, lower(strip(query))))

(***************************************************************************)
(* Preview generator (preview_generator.py).  Strings are sequences of     *)
(* single characters; "NL", "TAB" and "TICK" stand for the line feed, the  *)
(* tab and the backquote, "ELLIPSIS" for the one-character ellipsis.       *)
(***************************************************************************)
Digits == {"0", "1", "2", "3", "4", "5", "6", "7", "8", "9"}

IsLetter(c) == IsLower(c) \/ IsUpper(c)

\* \w
IsWordChar(c) == IsLetter(c) \/ c \in Digits \/ c = "_"

\* [\x00-\x1f\x7f-\x9f]
IsControl(c) == c \in {"NL", "TAB"}

Blanked(s) == [i \in 1..Len(s) |-> IF IsControl(s[i]) THEN " " ELSE s[i]]

\* each character with a flag: it is a blank that follows a blank
Flagged(s) == [i \in 1..Len(s) |-> <<s[i], s[i] = " " /\ i > 1 /\ s[i - 1] = " ">>]

Unflagged(ps) == [i \in 1..Len(ps) |-> ps[i][1]]

\* re.sub(r'\s+', ' ', s) on a text whose blanks are all " "
Collapse(s) == Unflagged(SelectSeq(Flagged(s), LAMBDA p : ~p[2]))

CleanText(text) == strip(Collapse(Blanked(text)))

\* the first index >= from where s has c, 0 when there is none
IndexFrom(s, c, from) ==
    IF \E i \in from..Len(s) : s[i] = c
    THEN CHOOSE i \in from..Len(s) : s[i] = c /\ \A j \in from..(i - 1) : s[j] # c
    ELSE 0

\* s.rfind(p) + 1: the last index where p occurs in s, 0 when there is none
LastIndexOf(s, p) ==
    IF \E i \in 1..Len(s) : OccursAt(s, p, i)
    THEN CHOOSE i \in 1..Len(s) : OccursAt(s, p, i) /\ \A j \in (i + 1)..Len(s) : ~OccursAt(s, p, j)
    ELSE 0

\* s.split(): the maximal runs of non-blank characters
RECURSIVE Words(_)
Words(s) ==
    IF lstrip(s) = <<>> THEN <<>>
    ELSE IF IndexFrom(lstrip(s), " ", 1) = 0 THEN <<lstrip(s)>>
    ELSE <<SubSeq(lstrip(s), 1, IndexFrom(lstrip(s), " ", 1) - 1)>>
         \o Words(SubSeq(lstrip(s), IndexFrom(lstrip(s), " ", 1) + 1, Len(lstrip(s))))

MIN_QUERY_WORD == 2

query_words(query) ==
    Filter([i \in 1..Len(Words(query)) |-> lower(Words(query)[i])],
           [i \in 1..Len(Words(query)) |-> Len(Words(query)[i]) > MIN_QUERY_WORD])

IsCallChar(c) == IsWordChar(c) \/ c = "."

\* [a-zA-Z0-9_] ("word") or [a-zA-Z0-9_.] ("call")
InClass(c, class) == IF class = "word" THEN IsWordChar(c) ELSE IsCallChar(c)

\* the last index of the run of characters of the class that starts at i
RunEnd(s, i, class) ==
    CHOOSE e \in i..Len(s) :
        /\ \A j \in (i + 1)..e : InClass(s[j], class)
        /\ (e = Len(s) \/ ~InClass(s[e + 1], class))

\* the first index >= i that holds no blank
RECURSIVE SkipBlanks(_, _)
SkipBlanks(s, i) == IF i <= Len(s) /\ s[i] = " " THEN SkipBlanks(s, i + 1) ELSE i

\* the inline code that opens at a (0: no backquote is left) and those after it
RECURSIVE InlineCode(_, _)
InlineCodeAt(s, a) ==
    IF a = 0 \/ IndexFrom(s, "TICK", a + 1) = 0 THEN <<>>
    ELSE IF IndexFrom(s, "TICK", a + 1) = a + 1 THEN InlineCode(s, a + 1)
    ELSE <<strip(SubSeq(s, a + 1, IndexFrom(s, "TICK", a + 1) - 1))>>
         \o InlineCode(s, IndexFrom(s, "TICK", a + 1) + 1)

\* inline code between two backquotes, r'.([^.\n]+).' with . the backquote,
\* from position i
InlineCode(s, i) == InlineCodeAt(s, IndexFrom(s, "TICK", i))

IsIdentStart(c) == IsLetter(c) \/ c = "_"

\* the function head ends at index c when "{" or ";" is there
HeadClosedAt(s, c) ==
    IF c <= Len(s) /\ s[c] \in {"{", ";"} THEN <<strip(SubSeq(s, 1, c))>> ELSE <<>>

\* the argument list opens at index a
HeadOpenedAt(s, a) ==
    IF a > Len(s) \/ s[a] # "(" \/ IndexFrom(s, ")", a + 1) = 0 THEN <<>>
    ELSE HeadClosedAt(s, SkipBlanks(s, IndexFrom(s, ")", a + 1) + 1))

\* r'^\s*([a-zA-Z_][a-zA-Z0-9_]*\s*\([^)]*\)\s*[{;])': a function definition
FunctionHead(s) ==
    IF s = <<>> \/ ~IsIdentStart(s[1]) THEN <<>>
    ELSE HeadOpenedAt(s, SkipBlanks(s, RunEnd(s, 1, "word") + 1))

Keywords == <<<<"c", "o", "n", "s", "t">>, <<"l", "e", "t">>, <<"v", "a", "r">>, <<"f", "u", "n", "c", "t", "i", "o", "n">>>>

\* the text after the keyword and one blank, up to the first "="
DeclaredAfter(s, p) ==
    IF p > Len(s) \/ s[p] = "=" THEN <<>>
    ELSE IF IndexFrom(s, "=", p) = 0 THEN <<SubSeq(s, p, Len(s))>>
    ELSE <<SubSeq(s, p, IndexFrom(s, "=", p) - 1)>>

\* r'^\s*(const|let|var|function)\s+([^=\n]+)': the groups of a JS declaration
RECURSIVE Declaration(_, _)
Declaration(s, kws) ==
    IF kws = <<>> THEN <<>>
    ELSE IF /\ StartsWith(s, Head(kws))
            /\ Len(s) > Len(Head(kws))
            /\ s[Len(Head(kws)) + 1] = " "
            /\ DeclaredAfter(s, Len(Head(kws)) + 2) # <<>>
         THEN <<Head(kws)>> \o DeclaredAfter(s, Len(Head(kws)) + 2)
         ELSE Declaration(s, Tail(kws))

\* r'^\s*(figma\.[a-zA-Z][a-zA-Z0-9_.]*)': a Figma API call
FigmaCall(s) ==
    IF StartsWith(s, FIGMA_PREFIX) /\ Len(s) > Len(FIGMA_PREFIX)
       /\ IsLetter(s[Len(FIGMA_PREFIX) + 1])
    THEN <<SubSeq(s, 1, RunEnd(s, Len(FIGMA_PREFIX) + 1, "call"))>>
    ELSE <<>>

MIN_CODE_BLOCK == 10

LongerThan(blocks, n) == Filter(blocks, [i \in 1..Len(blocks) |-> Len(blocks[i]) > n])

\* the text has no line break after the cleaning: the fenced-block pattern has
\* no match and ^ matches at the start only
extract_code_blocks(text) ==
    LongerThan(InlineCode(text, 1) \o FunctionHead(text) \o Declaration(text, Keywords)
               \o FigmaCall(text),
               MIN_CODE_BLOCK)

ApiMarkers == {<<"f", "i", "g", "m", "a", ".">>, <<"a", "s", "y", "n", "c">>, <<"a", "w", "a", "i", "t">>, <<"f", "u", "n", "c", "t", "i", "o", "n">>}

MentionsAny(words, s) == \E i \in 1..Len(words) : In(words[i], s)

IsApiBlock(code_block, words) ==
    /\ \E api \in ApiMarkers : In(api, lower(code_block))
    /\ (MentionsAny(words, lower(code_block)) \/ words = <<>>)

\* the lines that fit in 0.8 * max_length
RECURSIVE FittingLines(_, _, _)
FittingLines(lines, current_length, max_length) ==
    IF lines = <<>> \/ 10 * (current_length + Len(Head(lines)) + 1) > 8 * max_length THEN <<>>
    ELSE <<Head(lines)>>
         \o FittingLines(Tail(lines), current_length + Len(Head(lines)) + 1, max_length)

RECURSIVE JoinLines(_)
JoinLines(lines) ==
    IF Len(lines) = 1 THEN Head(lines) ELSE Head(lines) \o <<"NL">> \o JoinLines(Tail(lines))

CutLines(code_block, result_lines, max_length) ==
    IF result_lines # <<>> THEN JoinLines(result_lines) \o <<"NL", ".", ".", ".">>
    ELSE Take(code_block, max_length) \o <<".", ".", ".">>

\* a block of the cleaned text has no blank line to squeeze
format_code_preview(code_block, max_length) ==
    IF Len(strip(code_block)) <= max_length THEN strip(code_block)
    ELSE CutLines(strip(code_block),
                  FittingLines(SplitAt(strip(code_block), "NL"), 0, max_length), max_length)

SentenceEnds == {".", "!", "?"}

IsBreak(s, i) ==
    /\ i > 1 /\ i < Len(s)
    /\ s[i] = " " /\ s[i - 1] \in SentenceEnds /\ IsUpper(s[i + 1])

\* re.split(r'(?<=[.!?])\s+(?=[A-Z])', text) from position start
RECURSIVE SentencesFrom(_, _)
SentencesFrom(s, start) ==
    IF \A i \in start..Len(s) : ~IsBreak(s, i) THEN <<SubSeq(s, start, Len(s))>>
    ELSE <<SubSeq(s, start, (CHOOSE i \in start..Len(s) :
                                IsBreak(s, i) /\ \A j \in start..(i - 1) : ~IsBreak(s, j)) - 1)>>
         \o SentencesFrom(s, (CHOOSE i \in start..Len(s) :
                                IsBreak(s, i) /\ \A j \in start..(i - 1) : ~IsBreak(s, j)) + 1)

MIN_SENTENCE == 15

Stripped(ss) == [i \in 1..Len(ss) |-> strip(ss[i])]

split_into_sentences(text) == LongerThan(Stripped(SentencesFrom(text, 1)), MIN_SENTENCE)

\* a match of figma\.[A-Za-z][A-Za-z0-9_]*(\.[A-Za-z][A-Za-z0-9_]*)* ends at e or later
RECURSIVE SymbolEnd(_, _)
SymbolEnd(s, e) ==
    IF e + 2 <= Len(s) /\ s[e + 1] = "." /\ IsLetter(s[e + 2])
    THEN SymbolEnd(s, RunEnd(s, e + 2, "word"))
    ELSE e

SymbolAt(s, i) ==
    /\ (i = 1 \/ ~IsWordChar(s[i - 1]))
    /\ i + Len(FIGMA_PREFIX) <= Len(s)
    /\ lower(SubSeq(s, i, i + Len(FIGMA_PREFIX) - 1)) = FIGMA_PREFIX
    /\ IsLetter(s[i + Len(FIGMA_PREFIX)])

\* the matches of the symbol pattern from the match that starts at i on
RECURSIVE SymbolsFrom(_, _)
SymbolsAt(s, i) ==
    {SubSeq(s, i, SymbolEnd(s, RunEnd(s, i + Len(FIGMA_PREFIX), "word")))}
    \cup SymbolsFrom(s, SymbolEnd(s, RunEnd(s, i + Len(FIGMA_PREFIX), "word")) + 1)

\* re.findall of the symbol pattern (re.IGNORECASE) from position i, as a set
SymbolsFrom(s, i) ==
    IF \A k \in i..Len(s) : ~SymbolAt(s, k) THEN {}
    ELSE SymbolsAt(s, CHOOSE k \in i..Len(s) :
                         SymbolAt(s, k) /\ \A j \in i..(k - 1) : ~SymbolAt(s, j))

extract_api_symbols_from_text(text) == SymbolsFrom(text, 1)

UsefulWords ==
    {<<"c", "r", "e", "a", "t", "e">>, <<"e", "x", "p", "o", "r", "t">>, <<"l", "o", "a", "d">>, <<"s", "e", "t">>, <<"g", "e", "t">>, <<"a", "d", "d">>, <<"r", "e", "m", "o", "v", "e">>, <<"u", "p", "d", "a", "t", "e">>,
     <<"a", "s", "y", "n", "c">>, <<"a", "w", "a", "i", "t">>, <<"f", "u", "n", "c", "t", "i", "o", "n">>, <<"m", "e", "t", "h", "o", "d">>, <<"p", "r", "o", "p", "e", "r", "t", "y">>, <<"e", "x", "a", "m", "p", "l", "e">>}

TechnicalStarts ==
    {<<"s", "e", "t", " ", "t", "o", " ", "n", "u", "l", "l">>, <<"s", "u", "p", "p", "o", "r", "t", "e", "d", " ", "o", "n", ":">>, <<"i", "n", "f", "o">>, <<"t", "h", "i", "s", " ", "a", "p", "i", " ", "i", "s", " ", "o", "n", "l", "y">>,
     <<"v", "a", "l", "u", "e", " ", "m", "u", "s", "t", " ", "b", "e">>, <<"d", "e", "p", "r", "e", "c", "a", "t", "e", "d">>, <<"w", "a", "r", "n", "i", "n", "g">>, <<"n", "o", "t", "e", ":">>}

WORD_BONUS == 10
START_BONUS == 5
SYMBOL_BONUS == 8
USEFUL_BONUS == 2
TECHNICAL_PENALTY == 5
LONG_SENTENCE == 300
LONG_PENALTY == 3
MEDIUM_FROM == 50
MEDIUM_TO == 200
MEDIUM_BONUS == 2

RECURSIVE WordScore(_, _)
WordScore(sentence_lower, words) ==
    IF words = <<>> THEN 0
    ELSE (IF In(Head(words), sentence_lower)
          THEN WORD_BONUS + (IF StartsWith(sentence_lower, Head(words)) THEN START_BONUS ELSE 0)
          ELSE 0)
         + WordScore(sentence_lower, Tail(words))

calculate_sentence_relevance_score(sentence, words) ==
    WordScore(lower(sentence), words)
    + SYMBOL_BONUS * Cardinality(extract_api_symbols_from_text(sentence))
    + USEFUL_BONUS * Cardinality({w \in UsefulWords : In(w, lower(sentence))})
    - TECHNICAL_PENALTY * Cardinality({p \in TechnicalStarts : StartsWith(lower(sentence), p)})
    - (IF Len(sentence) > LONG_SENTENCE THEN LONG_PENALTY ELSE 0)
    + (IF Len(sentence) >= MEDIUM_FROM /\ Len(sentence) <= MEDIUM_TO THEN MEDIUM_BONUS ELSE 0)

FIRST_BONUS == 5
SECOND_BONUS == 3

PositionBonus(i) == IF i = 1 THEN FIRST_BONUS ELSE IF i = 2 THEN SECOND_BONUS ELSE 0

SentenceScore(sentences, words, i) ==
    calculate_sentence_relevance_score(sentences[i], words) + PositionBonus(i)

\* the first sentence of the highest score, 0 when no score exceeds -1
BestSentence(sentences, words) ==
    IF \A i \in 1..Len(sentences) : SentenceScore(sentences, words, i) <= -1 THEN 0
    ELSE CHOOSE i \in 1..Len(sentences) : \A j \in 1..Len(sentences) :
            \/ SentenceScore(sentences, words, i) > SentenceScore(sentences, words, j)
            \/ SentenceScore(sentences, words, i) = SentenceScore(sentences, words, j) /\ i <= j

\* the end of the last sentence that closes after 0.6 * max_length, 0 if none
BestEnd(truncated, max_length) ==
    IF \E c \in SentenceEnds : 10 * (LastIndexOf(truncated, <<c, " ">>) - 1) > 6 * max_length
    THEN CHOOSE p \in 1..Len(truncated) :
            /\ \E c \in SentenceEnds : p = LastIndexOf(truncated, <<c, " ">>)
            /\ 10 * (p - 1) > 6 * max_length
            /\ \A c \in SentenceEnds : LastIndexOf(truncated, <<c, " ">>) <= p
    ELSE 0

CutAtWord(truncated, max_length) ==
    IF 10 * (LastIndexOf(truncated, <<" ">>) - 1) > 8 * max_length
    THEN SubSeq(truncated, 1, LastIndexOf(truncated, <<" ">>) - 1)
    ELSE truncated

truncate_smart(text, max_length) ==
    IF Len(text) <= max_length THEN text
    ELSE IF BestEnd(Take(text, max_length), max_length) > 0
         THEN strip(SubSeq(text, 1, BestEnd(Take(text, max_length), max_length)))
         ELSE strip(CutAtWord(Take(text, max_length), max_length)) \o <<"ELLIPSIS">>

MIN_PARAGRAPH == 50

\* the cleaned text has no blank line: it is its only paragraph
ParagraphPreview(text, words, max_length) ==
    IF Len(text) < MIN_PARAGRAPH THEN truncate_smart(text, max_length)
    ELSE IF words # <<>> /\ MentionsAny(words, lower(text)) THEN truncate_smart(text, max_length)
    ELSE IF In(FIGMA_PREFIX, lower(text)) THEN truncate_smart(text, max_length)
    ELSE truncate_smart(text, max_length)

SentencePreview(text, words, max_length, sentences, best) ==
    IF best > 0 /\ SentenceScore(sentences, words, best) > 0
    THEN truncate_smart(sentences[best], max_length)
    ELSE ParagraphPreview(text, words, max_length)

ProsePreview(text, words, max_length, sentences) ==
    SentencePreview(text, words, max_length, sentences, BestSentence(sentences, words))

CodePreview(text, words, max_length, code_blocks) ==
    IF \E i \in 1..Len(code_blocks) : IsApiBlock(code_blocks[i], words)
    THEN format_code_preview(
             code_blocks[CHOOSE i \in 1..Len(code_blocks) :
                            /\ IsApiBlock(code_blocks[i], words)
                            /\ \A j \in 1..(i - 1) : ~IsApiBlock(code_blocks[j], words)],
             max_length)
    ELSE ProsePreview(text, words, max_length, split_into_sentences(text))

LongPreview(text, words, max_length) ==
    CodePreview(text, words, max_length, extract_code_blocks(text))

create_smart_preview(text, query, max_length) ==
    IF Len(CleanText(text)) <= max_length THEN CleanText(text)
    ELSE LongPreview(CleanText(text), query_words(query), max_length)

\* the texts, queries and lengths a caller passes
PreviewTexts ==
    {<<"f", "i", "g", "m", "a", ".", "a", "b">>,
     <<"a", "NL", "TAB", "b", " ", " ", "c">>,
     <<"TICK", "f", "i", "g", "m", "a", ".", "c", "r", "e", "a", "t", "e", "R", "e", "c", "t", "a", "n", "g", "l", "e", "(", "x", "x", "x", "x", "x", "x", "x", "x", "x", "x", "x", "x", "x", "x", "x", "x", "x", "x", "x", "x", "x", "x", "x", "x", "x", "x", "x", "x", "x", "x", "x", "x", "x", "x", "x", "x", "x", "x", "x", "x", ")", "TICK", " ", "c", "r", "e", "a", "t", "e", "s", " ", "a", " ", "r", "e", "c", "t", "a", "n", "g", "l", "e", " ", "o", "n", " ", "t", "h", "e", " ", "p", "a", "g", "e">>,
     <<"C", "a", "l", "l", " ", "TICK", "f", "i", "g", "m", "a", ".", "a", "b", "(", ")", "TICK", " ", "f", "i", "r", "s", "t", ".", " ", "T", "h", "e", "n", " ", "u", "s", "e", " ", "TICK", "a", "w", "a", "i", "t", " ", "f", "i", "g", "m", "a", ".", "l", "o", "a", "d", "F", "o", "n", "t", "A", "s", "y", "n", "c", "(", "f", "o", "n", "t", ")", "TICK", " ", "b", "e", "f", "o", "r", "e", " ", "t", "e", "x", "t", ".">>,
     <<"f", "i", "g", "m", "a", ".", "c", "r", "e", "a", "t", "e", "R", "e", "c", "t", "a", "n", "g", "l", "e", " ", "i", "s", " ", "t", "h", "e", " ", "c", "a", "l", "l", ".", " ", "y", "y", "y", "y", "y", "y", "y", "y", "y", "y", "y", "y", "y", "y", "y", "y", "y", "y", "y", "y", "y", "y", "y", "y", "y", "y", "y", "y", "y", "y", "y", "y", "y", "y", "y", "y", "y", "y", "y", "y">>,
     <<"f", "u", "n", "c", "t", "i", "o", "n", " ", "s", "e", "t", "u", "p", "(", "n", "o", "d", "e", ")", " ", "r", "e", "t", "u", "r", "n", "s", " ", "f", "i", "g", "m", "a", ".", "c", "u", "r", "r", "e", "n", "t", "P", "a", "g", "e", ".", "s", "e", "l", "e", "c", "t", "i", "o", "n", " ", "a", "n", "d", " ", "t", "h", "e", "n", " ", "s", "o", "m", "e", " ", "m", "o", "r", "e", " ", "w", "o", "r", "d", "s", " ", "f", "o", "l", "l", "o", "w", " ", "h", "e", "r", "e", " ", "s", "o", " ", "i", "t", " ", "i", "s", " ", "l", "o", "n", "g">>,
     <<"a", "s", "y", "n", "c", "_", "r", "u", "n", "(", "a", ",", " ", "b", ")", " ", "{", " ", "r", "e", "t", "u", "r", "n", " ", "a", ";", " ", "}", " ", "a", "n", "d", " ", "m", "o", "r", "e", " ", "t", "e", "x", "t", " ", "f", "o", "l", "l", "o", "w", "s", " ", "h", "e", "r", "e", " ", "f", "o", "r", " ", "l", "e", "n", "g", "t", "h">>,
     <<"U", "s", "e", " ", "t", "h", "e", " ", "r", "e", "c", "t", "a", "n", "g", "l", "e", " ", "t", "o", "o", "l", " ", "h", "e", "r", "e", ".", " ", "T", "h", "e", "n", " ", "e", "x", "p", "o", "r", "t", " ", "t", "h", "e", " ", "f", "r", "a", "m", "e", " ", "a", "s", " ", "p", "n", "g", "!", " ", "i", "t", " ", "w", "o", "r", "k", "s", "?", " ", "Y", "e", "s", " ", "i", "t", " ", "d", "o", "e", "s", ".", " ", "D", "o", "n", "e">>,
     <<"i", "n", "f", "o", " ", "b", "b", "b", "b", "b", "b", " ", "z", "z", "z", "z", "z", "z", " ", "q", "q", "q", "q", ".", " ", "W", "a", "r", "n", "i", "n", "g", " ", "z", "z", "z", " ", "f", "i", "g", "m", "a", ".", " ", "k", "k", "k", " ", "b", "b", "b", ".", " ", "Z", "z", "z", "z", " ", "q", "q", "q", "q", " ", "k", "k", "k", "k", " ", "b", "b", "b", "b", " ", "z", "z", "z", "z", ".">>,
     <<"i", "n", "f", "o", " ", "b", "b", "b", "b", "b", "b", " ", "z", "z", "z", "z", "z", "z", " ", "q", "q", "q", "q", ".", " ", "K", "k", "k", " ", "b", "b", "b", " ", "z", "z">>,
     <<"x", "x", "x", "x", "x", "x", "x", "x", "x", "x", "x", "x", "x", "x", "x", "x", "x", "x", "x", "x", "x", "x", "x", "x", "x", "x", "x", "x", "x", "x", "x", "x", "x", "x", "x", "x", "x", "x", "x", "x", "x", "x", "x", "x", "x", "x", "x", "x", "x", "x", "x", "x", "x", "x", "x", "x", "x", "x", "x", "x", "x", "x", "x", "x", "x", "x", "x", "x", "x", "x">>,
     <<"c", "o", "n", "s", "t", " ", "f", "r", "a", "m", "e", " ", "=", " ", "f", "i", "g", "m", "a", ".", "c", "r", "e", "a", "t", "e", "F", "r", "a", "m", "e", "(", ")", ";", " ", "E", "x", "p", "o", "r", "t", " ", "i", "t", ".", " ", "F", "i", "g", "m", "a", ".", "u", "i", ".", "p", "o", "s", "t", "M", "e", "s", "s", "a", "g", "e", " ", "a", "n", "d", " ", "f", "i", "g", "m", "a", ".", "u", "i", ".", "p", "o", "s", "t", "M", "e", "s", "s", "a", "g", "e", " ", "d", "i", "f", "f", "e", "r">>}

PreviewQueries ==
    {<<>>,
     <<"e", "x", "p", "o", "r", "t", " ", "p", "n", "g">>,
     <<"t", "o", " ", "f", "i", "g", "m", "a", ".", "a", "b">>}

MaxLengths == {12, 20, 30, 60}

(***************************************************************************)
(* The state machine: a call is answered (response), the answer is taken   *)
(* (Reply), and ingestion rewrites a community chunk between calls.        *)
(***************************************************************************)
NoResponse == [kind |-> "none"]

NoOutput == [kind |-> "none"]

\* the query analyzer is not part of a search or expand call
AnalyzerIdle ==
    /\ aliases_file = AliasFile("absent", <<>>)
    /\ aliases = <<>>
    /\ output = NoOutput

\* no call is pending, the symbol cache and the metrics are as constructed.  Every text of
\* Spec and WideSpec is shorter than SYMBOL_KEY_LEN, so there the symbol cache
\* never changes a result and is left out of the calls.
Slots == {1, 2}

NoCall == [pc |-> "idle"]

\* Metrics.__init__: the counters of the three tools, at zero
Tools == {"mcp_search", "mcp_expand", "mcp_health"}

NewMetrics == [calls_total |-> [tool \in Tools |-> 0], errors_total |-> [tool \in Tools |-> 0]]

LinkerIdle ==
    /\ symbol_cache = <<>>
    /\ calls = [slot \in Slots |-> NoCall]
    /\ metrics = NewMetrics

Idle == response.kind = "none"

Init ==
    /\ pages = InitPages
    /\ chunks \in InitCorpora
    /\ embeddings = {"c2", "c4"}
    /\ usage_cache = <<>>
    /\ response = NoResponse
    /\ ingests = 0
    /\ AnalyzerIdle
    /\ LinkerIdle

\* the fuzzy stage draws its sample only when it runs
SamplesFor(top_k, acc) == IF Len(acc.all_results) = 0 THEN FuzzySamples(top_k) ELSE {<<>>}

Answer(req, acc) ==
    /\ response' = unified_search(req, acc, usage_cache)
    /\ usage_cache' = cache_after_search(req, acc, usage_cache)

SearchWith(req, acc) == \E sample \in SamplesFor(req.top_k, acc) : Answer(req, Step5(sample, acc))

\* variant: the call stores an embedding for every chunk it looked at
Search_storing ==
    /\ Idle
    /\ \E query \in Queries, section \in Scopes, top_k \in 1..MaxLimit,
          emb \in EmbChoices, o \in Oracles, fail \in FailStages :
            SearchWith(Request(query, section, top_k, emb, fail, o),
                       Cascade(query, section, top_k, emb, o))
    /\ embeddings' = Joined
    /\ UNCHANGED <<pages, chunks, ingests, aliases_file, aliases, output, symbol_cache, calls, metrics>>

Search ==
    /\ Idle
    /\ \E query \in Queries, section \in Scopes, top_k \in 1..MaxLimit,
          emb \in EmbChoices, o \in Oracles, fail \in FailStages :
            SearchWith(Request(query, section, top_k, emb, fail, o),
                       Cascade(query, section, top_k, emb, o))
    /\ UNCHANGED <<pages, chunks, embeddings, ingests, aliases_file, aliases, output, symbol_cache, calls, metrics>>

Expand ==
    /\ Idle
    /\ \E id \in ExpandIds, type \in ExpandTypes, w \in 0..MaxWindow, fail \in ExpandFails :
          \E pick \in Picks(ExpandRequest(id, type, w, fail)) :
            response' = universal_expand(ExpandRequest(id, type, w, fail), pick)
    /\ UNCHANGED <<pages, chunks, embeddings, usage_cache, ingests, aliases_file, aliases, output, symbol_cache, calls, metrics>>

Reply ==
    /\ ~Idle
    /\ response' = NoResponse
    /\ UNCHANGED <<pages, chunks, embeddings, usage_cache, ingests, aliases_file, aliases, output, symbol_cache, calls, metrics>>

\* ingestion (outside the core) replaces the text of a community chunk
Ingest ==
    /\ Idle
    /\ ingests < MaxIngest
    /\ \E c \in {x \in DOMAIN chunks : PageOf(x).section = "community_plugin"}, t \in IngestTexts :
          /\ chunks[c].text # t
          /\ chunks' = [chunks EXCEPT ![c].text = t]
    /\ ingests' = ingests + 1
    /\ UNCHANGED <<pages, embeddings, usage_cache, response, aliases_file, aliases, output, symbol_cache, calls, metrics>>

Next == Search \/ Expand \/ Reply \/ Ingest

Spec == Init /\ [][Next]_vars

(***************************************************************************)
(* Searches with limits up to MaxWide over the stores with many            *)
(* candidates, the store healthy in the retrieval stages.                  *)
(***************************************************************************)
\* "opposed": the query vector and the chunk vectors point apart (cosine -1/2)
WideEmb == EmbChoices \cup {"opposed"}

WideFails == {"none", "crosslink"}

WideInit ==
    /\ pages = InitPages
    /\ \E s \in WideStores : chunks = s.chunks /\ embeddings = s.embeddings
    /\ usage_cache = <<>>
    /\ response = NoResponse
    /\ ingests = 0
    /\ AnalyzerIdle
    /\ LinkerIdle

WideSearch ==
    /\ Idle
    /\ \E query \in Queries, section \in Scopes, top_k \in 1..MaxWide,
          emb \in WideEmb, o \in Oracles, fail \in WideFails :
            SearchWith(Request(query, section, top_k, emb, fail, o),
                       Cascade(query, section, top_k, emb, o))
    /\ UNCHANGED <<pages, chunks, embeddings, ingests, aliases_file, aliases, output, symbol_cache, calls, metrics>>

WideNext == WideSearch \/ Reply

WideSpec == WideInit /\ [][WideNext]_vars

(***************************************************************************)
(* The query normalizer: constructed over an alias file, then asked.       *)
(***************************************************************************)
StoreIdle ==
    /\ pages = InitPages
    /\ chunks = Layout(T_DOC, T_PLAIN, T_POST, T_CODE, T_NODE)
    /\ embeddings = {}
    /\ usage_cache = <<>>
    /\ response = NoResponse
    /\ ingests = 0
    /\ LinkerIdle

NormalizerInit ==
    /\ StoreIdle
    /\ aliases_file \in AliasFiles
    /\ aliases = load_aliases(aliases_file)
    /\ output = NoOutput

Normalize ==
    /\ \E query \in NormQueries :
          output' = [kind |-> "normalize", query |-> query,
                     canonical |-> normalize_query(aliases, query).canonical,
                     alternates |-> normalize_query(aliases, query).alternates]
    /\ UNCHANGED <<pages, chunks, embeddings, usage_cache, response, ingests,
                   aliases_file, aliases, symbol_cache, calls, metrics>>

NormalizerNext == Normalize

NormalizerSpec == NormalizerInit /\ [][NormalizerNext]_vars

(***************************************************************************)
(* The preview generator: a pure function of text, query and length.       *)
(***************************************************************************)
PreviewInit ==
    /\ StoreIdle
    /\ AnalyzerIdle

Preview ==
    /\ output = NoOutput
    /\ \E text \in PreviewTexts, query \in PreviewQueries, max_length \in MaxLengths :
          output' = [kind |-> "preview", text |-> text, query |-> query,
                     max_length |-> max_length,
                     preview |-> create_smart_preview(text, query, max_length)]
    /\ UNCHANGED <<pages, chunks, embeddings, usage_cache, response, ingests,
                   aliases_file, aliases, symbol_cache, calls, metrics>>

\* the caller takes the preview
Return ==
    /\ output # NoOutput
    /\ output' = NoOutput
    /\ UNCHANGED <<pages, chunks, embeddings, usage_cache, response, ingests,
                   aliases_file, aliases, symbol_cache, calls, metrics>>

PreviewNext == Preview \/ Return

PreviewSpec == PreviewInit /\ [][PreviewNext]_vars

(***************************************************************************)
(* Calls on one server.  A call is accepted (its coroutine exists) and     *)
(* later runs: unified_search has no point where it gives up control, the  *)
(* embedding request inside get_embedding being a blocking call, so its    *)
(* body is one step.  The calls share the store and the two caches of the  *)
(* cross linker.  The order the store and the set iteration give is a      *)
(* property of the process and the store, the same for every call.         *)
(***************************************************************************)
\* a 500-character word without symbols is the atom "PAD"
T_LONG_RECT == <<"PAD", " ", "figma", ".", "createRectangle">>
T_LONG_POST == <<"PAD", " ", "figma", ".", "ui", ".", "postMessage">>

CallQueries == {Q_SYMBOL, Q_NESTED, Q_WORD}

CallScopes == {"auto", "official"}

CallEmb == {"unavailable", "ranked"}

ConcurrentInit ==
    /\ pages = InitPages
    /\ chunks = Layout(T_LONG_RECT, T_LONG_POST, T_PLAIN, T_CODE, T_NODE)
    /\ embeddings = {"c2", "c4"}
    /\ usage_cache = <<>>
    /\ response = NoResponse
    /\ ingests = 0
    /\ AnalyzerIdle
    /\ LinkerIdle

Pending(slot) == calls[slot].pc # "idle"

SameOrder(o) == \A slot \in Slots : Pending(slot) => calls[slot].req.o = o

Accept(slot) ==
    /\ calls[slot].pc = "idle"
    /\ \E query \in CallQueries, section \in CallScopes, top_k \in 1..MaxLimit,
          emb \in CallEmb, o \in Oracles :
            /\ SameOrder(o)
            /\ calls' = [calls EXCEPT ![slot] =
                            [pc |-> "accepted",
                             req |-> Request(query, section, top_k, emb, "none", o)]]
    /\ UNCHANGED <<pages, chunks, embeddings, usage_cache, response, ingests,
                   aliases_file, aliases, output, symbol_cache, metrics>>

\* unified_search over the caches of the process, final its cut result list
\* and symbols the symbol cache after the first loop of add_cross_links
Linked(req, acc, final, cache, symbols) ==
    [result |-> Returned(req, acc, add_cross_links_cached(final, cache, symbols, FALSE, req.o)),
     usage_cache |-> CacheWith(CachedUsageKeys(final, symbols), cache, FALSE, req.o),
     symbol_cache |-> symbols]

Cut(req, acc, cache, symbols, final) ==
    Linked(req, acc, final, cache, SymbolCacheAfter(final, symbols))

unified_search_cached(req, acc, cache, symbols) ==
    Cut(req, acc, cache, symbols, final_results(acc.all_results, req.top_k))

Finish(slot, sample, after) ==
    /\ calls' = [calls EXCEPT ![slot] =
                    [pc |-> "done", req |-> calls[slot].req, sample |-> sample,
                     result |-> after.result]]
    /\ usage_cache' = after.usage_cache
    /\ symbol_cache' = after.symbol_cache

RunWith(slot, req, acc) ==
    \E sample \in SamplesFor(req.top_k, acc) :
        Finish(slot, sample,
               unified_search_cached(req, Step5(sample, acc), usage_cache, symbol_cache))

Run(slot) ==
    /\ calls[slot].pc = "accepted"
    /\ RunWith(slot, calls[slot].req,
               Cascade(calls[slot].req.query, calls[slot].req.section, calls[slot].req.top_k,
                       calls[slot].req.emb, calls[slot].req.o))
    /\ UNCHANGED <<pages, chunks, embeddings, response, ingests,
                   aliases_file, aliases, output, metrics>>

AcceptCall == \E slot \in Slots : Accept(slot)

RunCall == \E slot \in Slots : Run(slot)

ConcurrentNext == AcceptCall \/ RunCall

ConcurrentSpec == ConcurrentInit /\ [][ConcurrentNext]_vars

(***************************************************************************)
(* One cross linker asked for the symbols of one text after another.       *)
(***************************************************************************)
T_LONG_PLAIN == <<"PAD", " ", "shape">>

ExtractTexts ==
    {<<>>, T_DOC, T_POST, T_NODE, T_PLAIN, T_CASED, T_LONG_RECT, T_LONG_POST, T_LONG_PLAIN}

ExtractorInit ==
    /\ StoreIdle
    /\ AnalyzerIdle

Extract ==
    /\ \E text \in ExtractTexts :
          /\ output' = [kind |-> "symbols", text |-> text,
                        symbols |-> extract_api_symbols_from_content(symbol_cache, text)]
          /\ symbol_cache' = SymbolCachePut(symbol_cache, text)
    /\ UNCHANGED <<pages, chunks, embeddings, usage_cache, response, ingests,
                   aliases_file, aliases, calls, metrics>>

ExtractorNext == Extract

ExtractorSpec == ExtractorInit /\ [][ExtractorNext]_vars

(***************************************************************************)
(* The tool dispatcher call_tool (mcp_server.py) and its metrics.  What    *)
(* the engines and the formatting do is a choice: they return or raise.    *)
(* Of the metrics the two counters are kept, the latencies and byte counts *)
(* are updated after them and decide nothing.                              *)
(***************************************************************************)
ToolNames == Tools \cup {"echo_test", "unknown_tool"}

Outcomes == {"returned", "raised"}

\* record_call: self.calls_total[tool] += 1 raises KeyError for a tool that
\* has no counter, before anything is changed
record_call(m, tool, error) ==
    IF tool \notin DOMAIN m.calls_total THEN [raised |-> TRUE, metrics |-> m]
    ELSE [raised |-> FALSE,
          metrics |-> [calls_total |-> [m.calls_total EXCEPT ![tool] = @ + 1],
                       errors_total |-> [m.errors_total EXCEPT ![tool] =
                                            IF error THEN @ + 1 ELSE @]]]

ToolReply(name, recorded, isError, text) ==
    [kind |-> "tool", name |-> name, raised |-> FALSE, isError |-> isError, text |-> text,
     metrics |-> recorded.metrics]

\* the exception leaves call_tool
ToolRaised(name, m) ==
    [kind |-> "tool", name |-> name, raised |-> TRUE, isError |-> TRUE, text |-> "",
     metrics |-> m]

\* a reply after record_call, which may raise
Recorded(name, recorded, isError, text, onRaise) ==
    IF recorded.raised THEN onRaise ELSE ToolReply(name, recorded, isError, text)

\* except Exception: record the error and answer 'Internal error'; a raise of
\* record_call in the handler is not caught
Handler(m, name) ==
    Recorded(name, record_call(m, name, TRUE), TRUE, "Internal error", ToolRaised(name, m))

\* the end of the try block: formatted text, record_call, the reply
Formatted(m, name, text) ==
    Recorded(name, record_call(m, name, FALSE), FALSE, text, Handler(m, name))

\* the value of call_tool and the metrics after it; valid tells whether the
\* arguments pass validation, outcome what the engine and the formatting do
call_tool(m, name, valid, outcome) ==
    CASE name = "echo_test" -> Formatted(m, name, "ECHO")
      [] name \in {"mcp_search", "mcp_expand"} ->
            IF ~valid
            THEN Recorded(name, record_call(m, name, TRUE), TRUE, "Invalid arguments",
                          Handler(m, name))
            ELSE IF outcome = "raised" THEN Handler(m, name)
            ELSE Formatted(m, name, "formatted")
      [] name = "mcp_health" ->
            IF outcome = "raised" THEN Handler(m, name) ELSE Formatted(m, name, "formatted")
      [] OTHER ->
            Recorded(name, record_call(m, name, TRUE), TRUE, "Unknown tool", Handler(m, name))

ToolInit ==
    /\ StoreIdle
    /\ AnalyzerIdle

Finished(reply) ==
    /\ output' = reply
    /\ metrics' = reply.metrics

CallTool ==
    /\ \A tool \in Tools : metrics.calls_total[tool] < MaxCalls
    /\ \E name \in ToolNames, valid \in BOOLEAN, outcome \in Outcomes :
          Finished(call_tool(metrics, name, valid, outcome))
    /\ UNCHANGED <<pages, chunks, embeddings, usage_cache, response, ingests,
                   aliases_file, aliases, symbol_cache, calls>>

ToolNext == CallTool

ToolSpec == ToolInit /\ [][ToolNext]_vars

(***************************************************************************)
(* Properties.  A response is checked in the state it was computed in:     *)
(* the corpus changes only between calls.                                  *)
(***************************************************************************)
SearchReturned == response.kind = "search" /\ ~response.raised

ExpandReturned == response.kind = "expand"

\* the candidates of the first four stages of the answered search
CandidatesOf(r) ==
    Cascade(r.req.query, r.req.section, r.req.top_k, r.req.emb, r.req.o).all_results

StageOf(r, stage) == \E i \in 1..Len(r.search_strategy) : r.search_strategy[i].stage = stage

\* C1: when some chunk mentions 'figma.', a search that returns has between
\* 1 and limit results, whichever stages fired.
C1_NeverEmpty ==
    (SearchReturned /\ \E c \in Joined : MentionsFigma(c))
        => Len(response.results) \in 1..response.req.top_k

\* the fuzzy stage alone filled the list
C1_Witness ==
    /\ SearchReturned
    /\ StageOf(response, "fuzzy_fallback")
    /\ Len(response.results) = response.req.top_k
    /\ \A i \in 1..Len(response.results) : response.results[i].is_fallback

Absent(id) == id \notin DOMAIN pages /\ id \notin DOMAIN chunks

AllAttempted(r) ==
    /\ ~r.success
    /\ r.attempted_methods
         = <<ResolvedType(r.req), OtherType(ResolvedType(r.req)), "partial_match">>

C3_StagesIsolated == response.kind = "search" => ~response.raised

DistinctChunks(rs) == \A i, j \in 1..Len(rs) : i # j => rs[i].chunk_id # rs[j].chunk_id

\* C4: no two entries of a returned result list have the same chunk id.
C4_NoDuplicates == SearchReturned => DistinctChunks(response.results)

\* one symbol stage found a chunk twice, or found a chunk the semantic stage had
C4_Witness ==
    /\ SearchReturned
    /\ Len(response.results) = 2
    /\ ~DistinctChunks(CandidatesOf(response))
    /\ \E i \in 1..2 : /\ response.results[i].search_method = "semantic"
                       /\ \E j \in 1..Len(CandidatesOf(response)) :
                            /\ CandidatesOf(response)[j].search_method = "api_symbol"
                            /\ CandidatesOf(response)[j].chunk_id = response.results[i].chunk_id

SortKey(r) == <<r.score, r.api_match>>

Ordered(rs) ==
    \A i, j \in 1..Len(rs) : i < j =>
        /\ ~RatLess(rs[i].score, rs[j].score)
        /\ RatEq(rs[i].score, rs[j].score) => rs[i].api_match >= rs[j].api_match

\* no candidate left out sorts before a result kept (cands: one per chunk)
PrefixOf(rs, cands) ==
    \A k \in 1..Len(cands) :
        (\A i \in 1..Len(rs) : rs[i].chunk_id # cands[k].chunk_id)
            => \A i \in 1..Len(rs) : ~KeyGreater(SortKey(cands[k]), SortKey(rs[i]))

\* C5: results are in non-increasing score order, among equal scores the
\* entries with api_match come first, and truncation keeps a prefix of that order.
C5_Sorted ==
    SearchReturned
        => /\ Ordered(response.results)
           /\ PrefixOf(response.results, unique_results(CandidatesOf(response), {}))

\* a symbol hit ties with a semantic hit found before it, and sorts first
C5_Witness ==
    /\ SearchReturned
    /\ Len(response.results) = 2
    /\ response.results[1].api_match = 1
    /\ response.results[2].api_match = 1
    /\ \E k \in 1..Len(CandidatesOf(response)) :
          /\ CandidatesOf(response)[k].search_method = "semantic"
          /\ RatEq(CandidatesOf(response)[k].score, API_SCORE)
          /\ CandidatesOf(response)[1].chunk_id = CandidatesOf(response)[k].chunk_id
          /\ CandidatesOf(response)[1].chunk_id \notin
                {response.results[i].chunk_id : i \in 1..2}

ChunkExpanded ==
    /\ ExpandReturned
    /\ response.success
    /\ response.data.type = "chunk"

\* C6: a chunk expansion with window w reports
\* target_position_in_context = min(w, chunk_index).
C6_TargetPosition ==
    ChunkExpanded
        => response.data.target_position_in_context
             = Min(response.req.context_window, chunks[response.data.chunk_id].chunk_index)

\* the window is cut on the left of the target (w < chunk_index)
C6_Witness ==
    /\ ChunkExpanded
    /\ response.req.context_window = 1
    /\ chunks[response.data.chunk_id].chunk_index = 2
    /\ response.data.target_position_in_context = 1

Failed(req, type) == ExpandAs(type, req.id, req.context_window, req.fail) = NoData

\* C7: the methods are tried in the order resolved type, other type, partial
\* match, each only after the ones before it failed; a success of a later method
\* is flagged fallback_used; a failure carries the identifier and the attempted
\* methods in the order tried.
C7_FallbackOrder ==
    ExpandReturned =>
        /\ response.tried = Take(<<ResolvedType(response.req),
                                   OtherType(ResolvedType(response.req)),
                                   "partial_match">>, Len(response.tried))
        /\ Len(response.tried) \in 1..3
        /\ Len(response.tried) >= 2 => Failed(response.req, response.tried[1])
        /\ Len(response.tried) >= 3 => Failed(response.req, response.tried[2])
        /\ response.success => (response.fallback_used <=> Len(response.tried) >= 2)
        /\ ~response.success =>
              /\ response.id = response.req.id
              /\ response.attempted_methods = response.tried
              /\ Len(response.tried) = 3
              /\ PartialPicks(response.req.id, response.req.fail) = {}

\* the second method answered after the first found nothing
C7_Witness ==
    /\ ExpandReturned
    /\ response.success
    /\ response.req.type = "page"
    /\ response.tried = <<"page", "chunk">>
    /\ response.method_used = "chunk_expansion"
    /\ response.fallback_used

InScope(section, r) ==
    CASE section = "official" ->
            pages[r.page_id].source = "official" /\ pages[r.page_id].section = "plugin"
      [] section = "community_plugin" -> pages[r.page_id].section = "community_plugin"
      [] OTHER -> TRUE

\* C8 as stated: every result of a scoped search belongs to the scope,
\* whichever stage produced it.
C8_AllInScope ==
    SearchReturned
        => \A i \in 1..Len(response.results) :
              InScope(response.req.section, response.results[i])

\* C8, amended: every result of a scoped search that the semantic or the
\* keyword stage produced belongs to the scope (official: source official and
\* section plugin; community: section community_plugin).
C8_ScopedStagesInScope ==
    SearchReturned
        => \A i \in 1..Len(response.results) :
              response.results[i].search_method \in {"semantic", "keyword"}
                  => InScope(response.req.section, response.results[i])

C8_Witness ==
    /\ SearchReturned
    /\ response.req.section = "community_plugin"
    /\ Len(response.results) = 2
    /\ response.results[2].search_method = "semantic"
    /\ response.results[2].chunk_id = "c4"
    /\ response.results[1].search_method = "api_symbol"
    /\ ~InScope("community_plugin", response.results[1])

\* C9: what find_community_usage answers for a symbol equals what the
\* cache-less lookup computes from the current corpus.
C9_CacheNeverStale ==
    \A k \in DOMAIN usage_cache :
        \E o \in Oracles :
            find_community_usage(usage_cache, k[1], k[2], FALSE, o) = CommunityUsage(k[1], k[2], o)

KeywordOrFuzzyMatch(req) ==
    \/ KeywordResults(req.query, req.section, req.top_k, req.o) # <<>>
    \/ \E c \in Joined : MentionsFigma(c)

\* C10: without an embedding the search returns (store healthy), its trace has
\* no semantic entry, the symbol, keyword and fuzzy stages run as without
\* the semantic stage, and the result is non-empty when a chunk matches the
\* keyword or the fuzzy stage.
C10_NoEmbedding ==
    (response.kind = "search" /\ response.req.emb = "unavailable"
        /\ response.req.fail \in {"none", "semantic", "crosslink"})
    => /\ ~response.raised
       /\ ~StageOf(response, "semantic_official")
       /\ ~StageOf(response, "semantic_community")
       /\ \A i \in 1..Len(response.results) : response.results[i].search_method # "semantic"
       /\ (response.api_symbols_detected = <<>>) => StageOf(response, "keyword")
       /\ KeywordOrFuzzyMatch(response.req) => response.results # <<>>

\* the keyword stage answers a word query
C10_Witness ==
    /\ SearchReturned
    /\ response.req.emb = "unavailable"
    /\ response.req.fail = "semantic"
    /\ response.req.query = Q_WORD
    /\ response.search_strategy = <<Trace("keyword", <<>>, 2)>>
    /\ Len(response.results) = 2

\* C11: every cross-link bundle of a search result has at most 2 entries.
C11_BundleAtMostTwo ==
    SearchReturned
        => \A i \in 1..Len(response.results) :
              Len(response.results[i].cross_links.items) <= LINK_LIMIT

\* three symbols of one official result found three distinct community chunks
C11_Witness ==
    /\ SearchReturned
    /\ response.req.fail = "none"
    /\ \E i \in 1..Len(response.results) :
          /\ response.results[i].cross_links.type = "community_examples"
          /\ Len(response.results[i].cross_links.items) = 2
          /\ Cardinality(ExtractContentSymbols(chunks[response.results[i].chunk_id].text)) = 3
          /\ Len(UniqueExamples(FoundExamples(LinkSymbols(response.results[i], response.req.o),
                                              <<>>, FALSE, response.req.o), <<>>)) = 3

\* C12: no search or expand call, whether it succeeds, falls back or fails,
\* changes the pages, the chunks or the embeddings.
C12_StoreUntouched ==
    [][(Idle /\ response' # NoResponse) => UNCHANGED <<pages, chunks, embeddings>>]_vars

\* an expand call failed after a search call had written the usage cache
C12_Witness ==
    /\ ExpandReturned
    /\ ~response.success
    /\ usage_cache # <<>>

\* the chunks of page p
ChunksOn(p) == {c \in DOMAIN chunks : chunks[c].page_id = p}

\* the chunk of page p that has exactly k chunks of p before it by chunk_index
NthChunk(p, k) ==
    CHOOSE c \in ChunksOn(p) :
        Cardinality({d \in ChunksOn(p) : chunks[d].chunk_index < chunks[c].chunk_index}) = k

\* the texts of chunks k.. of page p, in index order, a blank line between them
RECURSIVE TextFrom(_, _)
TextFrom(p, k) ==
    IF k >= Cardinality(ChunksOn(p)) THEN <<>>
    ELSE IF k = Cardinality(ChunksOn(p)) - 1 THEN chunks[NthChunk(p, k)].text
    ELSE chunks[NthChunk(p, k)].text \o <<"BLANKLINE">> \o TextFrom(p, k + 1)

\* C13: for an identifier that is a page with n >= 1 chunks and is not a
\* chunk, expand(id, "auto", w) succeeds with page data, total_chunks = n and
\* content = the n chunk texts in ascending chunk_index order joined by a blank
\* line, whatever w is (the store answering).
C13_PageExpansion ==
    (/\ ExpandReturned
     /\ response.req.type = "auto"
     /\ response.req.fail = "none"
     /\ response.req.id \in DOMAIN pages
     /\ response.req.id \notin DOMAIN chunks
     /\ ChunksOn(response.req.id) # {})
        => /\ response.success
           /\ response.data.type = "page"
           /\ response.data.page_id = response.req.id
           /\ response.data.total_chunks = Cardinality(ChunksOn(response.req.id))
           /\ response.data.content = TextFrom(response.req.id, 0)

\* a page of three chunks with three different texts, expanded with window 2
C13_Witness ==
    /\ ExpandReturned
    /\ response.req.type = "auto"
    /\ response.req.fail = "none"
    /\ response.req.id = "p1"
    /\ response.req.context_window = 2
    /\ response.success
    /\ response.data.total_chunks = 3
    /\ Cardinality({chunks[c].text : c \in ChunksOn("p1")}) = 3

\* the chunks of the target's page with chunk_index in lo..hi
InRange(target, lo, hi) ==
    {c \in ChunksOn(chunks[target].page_id) : chunks[c].chunk_index \in lo..hi}

\* C14: a chunk expansion with window w reports the range
\* [max(0, index - w), min(chunk_of - 1, index + w)]; its context chunks are
\* exactly the page's chunks in that range in ascending index order;
\* has_prev = (index > 0) and has_next = (index < chunk_of - 1).
C14_ContextRange ==
    ChunkExpanded =>
        LET d == response.data
            w == response.req.context_window
            row == chunks[d.chunk_id]
            lo == IF row.chunk_index - w > 0 THEN row.chunk_index - w ELSE 0
            hi == IF row.chunk_index + w < row.chunk_of - 1 THEN row.chunk_index + w
                  ELSE row.chunk_of - 1
        IN  /\ d.context_start_index = lo
            /\ d.context_end_index = hi
            /\ {d.context_chunks[i].chunk_id : i \in 1..Len(d.context_chunks)}
                  = InRange(d.chunk_id, lo, hi)
            /\ Len(d.context_chunks) = Cardinality(InRange(d.chunk_id, lo, hi))
            /\ \A i \in 1..Len(d.context_chunks) :
                  /\ d.context_chunks[i].chunk_index = chunks[d.context_chunks[i].chunk_id].chunk_index
                  /\ i > 1 => d.context_chunks[i - 1].chunk_index < d.context_chunks[i].chunk_index
            /\ d.has_prev = (row.chunk_index > 0)
            /\ d.has_next = (row.chunk_index < row.chunk_of - 1)

\* the middle chunk of a three-chunk page with window 2: the range is cut on
\* both sides and covers the page
C14_Witness ==
    /\ ChunkExpanded
    /\ response.req.context_window = 2
    /\ chunks[response.data.chunk_id].chunk_index = 1
    /\ chunks[response.data.chunk_id].chunk_of = 3
    /\ response.data.context_start_index = 0
    /\ response.data.context_end_index = 2
    /\ Len(response.data.context_chunks) = 3
    /\ response.data.has_prev
    /\ response.data.has_next

\* C15: when the alias file is absent, unparsable or not a mapping,
\* normalize_query returns the input unchanged as the canonical term, with no
\* alternates.
C15_NoOpWithoutTable ==
    (output.kind = "normalize" /\ aliases_file.kind \in BrokenKinds)
        => /\ output.canonical = output.query
           /\ output.alternates = <<>>

\* C16: for every text, query and max_length the preview has at most
\* max_length characters plus one trailing ellipsis character.
C16_PreviewBound ==
    output.kind = "preview" => Len(output.preview) <= output.max_length + 1

InUnitRange(score) == ~RatLess(score, Rat(0, 1)) /\ ~RatLess(Rat(1, 1), score)

\* C17: every score of a returned result list lies in [0, 1], whichever
\* strategy (cosine similarity, symbol search, keyword ratio, fuzzy fallback)
\* produced the candidate.
C17_ScoresInUnitRange ==
    SearchReturned
        => \A i \in 1..Len(response.results) : InUnitRange(response.results[i].score)

\* what the call of a slot returns when it is the only call on a fresh server
\* over the same corpus
Alone(call) ==
    unified_search_cached(call.req,
                          Step5(call.sample,
                                Cascade(call.req.query, call.req.section, call.req.top_k,
                                        call.req.emb, call.req.o)),
                          <<>>, <<>>).result

\* C18: every completed call returns exactly what the same call returns
\* when it runs alone on the same corpus, whatever calls ran before it.
C18_CallsIndependent ==
    \A slot \in Slots : calls[slot].pc = "done" => calls[slot].result = Alone(calls[slot])

StageRank(stage) ==
    CASE stage = "semantic_official" -> 1
      [] stage = "semantic_community" -> 2
      [] stage = "api_symbol" -> 3
      [] stage = "keyword" -> 4
      [] stage = "fuzzy_fallback" -> 5

\* each stage at most once and in the order of the cascade, the symbol stage
\* once per symbol
InStageOrder(t) ==
    \A i, j \in 1..Len(t) :
        i < j => \/ StageRank(t[i].stage) < StageRank(t[j].stage)
                 \/ t[i].stage = "api_symbol" /\ t[j].stage = "api_symbol"

\* the candidates of the semantic and symbol stages of a request
SemanticAndSymbol(req) ==
    Step3(req.query, req.o,
          Step2(req.section, req.top_k, req.emb, req.o,
                Step1(req.section, req.top_k, req.emb, req.o, NewAcc))).all_results

ChunksOf(rs) == {rs[i].chunk_id : i \in 1..Len(rs)}

KeywordHits(r) ==
    {r.results[i].chunk_id : i \in {j \in 1..Len(r.results) : r.results[j].search_method = "keyword"}}

\* C19: the trace of a returned search lists the stages in the order
\* semantic_official, semantic_community, api_symbol, keyword, fuzzy_fallback;
\* the keyword stage is in it exactly when the semantic and symbol stages
\* gave no candidate, the fuzzy stage exactly when the keyword stage ran and
\* gave none; in auto scope, when the official keyword query gives rows, the
\* keyword stage holds those rows and none of the community corpus.
C19_StageOrder ==
    SearchReturned =>
        /\ InStageOrder(response.search_strategy)
        /\ StageOf(response, "keyword") <=> SemanticAndSymbol(response.req) = <<>>
        /\ StageOf(response, "fuzzy_fallback") <=>
              \E i \in 1..Len(response.search_strategy) :
                  /\ response.search_strategy[i].stage = "keyword"
                  /\ response.search_strategy[i].count = 0
        /\ (/\ response.req.section = "auto"
            /\ StageOf(response, "keyword")
            /\ keyword_search(response.req.query, "official", response.req.top_k,
                              response.req.o) # <<>>)
           => /\ KeywordHits(response) \subseteq
                    ChunksOf(keyword_search(response.req.query, "official",
                                            response.req.top_k, response.req.o))
              /\ \A i \in 1..Len(response.results) :
                    response.results[i].section # "community_plugin"

\* in auto scope the official keyword query found nothing and the community
\* keyword query filled the list
C19_Witness ==
    /\ SearchReturned
    /\ response.req.section = "auto"
    /\ response.req.query = Q_WORD
    /\ response.search_strategy = <<Trace("keyword", <<>>, 1)>>
    /\ keyword_search(Q_WORD, "official", response.req.top_k, response.req.o) = <<>>
    /\ Len(response.results) = 1
    /\ response.results[1].section = "community_plugin"
    /\ response.results[1].search_method = "keyword"

\* the keyword stage found nothing and the fuzzy stage ran after it
C19_FuzzyAfterKeyword ==
    /\ SearchReturned
    /\ Len(response.search_strategy) = 2
    /\ response.search_strategy[1] = Trace("keyword", <<>>, 0)
    /\ response.search_strategy[2].stage = "fuzzy_fallback"

\* the keyword stage stayed out after the semantic and symbol stages
C19_KeywordSkipped ==
    /\ SearchReturned
    /\ Len(response.search_strategy) = 4
    /\ ~StageOf(response, "keyword")

\* the count of the entry of a stage in the trace, 0 without an entry
TraceCount(r, stage) ==
    IF StageOf(r, stage)
    THEN r.search_strategy[CHOOSE i \in 1..Len(r.search_strategy) :
                                r.search_strategy[i].stage = stage].count
    ELSE 0

\* what the community semantic query finds when n results have accumulated
\* and it asks for k
CommunityFound(req, n, k) ==
    IF n < MIN_SEMANTIC
    THEN Len(semantic_search("community_plugin", k, req.emb, req.o))
    ELSE 0

OfficialFirst(r) ==
    /\ TraceCount(r, "semantic_official") =
          Len(semantic_search("official", r.req.top_k, r.req.emb, r.req.o))
    /\ \A i, j \in 1..Len(r.search_strategy) :
          (r.search_strategy[i].stage = "semantic_official"
              /\ r.search_strategy[j].stage = "semantic_community") => i < j

C20_CommunityNotAsked ==
    /\ SearchReturned
    /\ response.req.section = "auto"
    /\ TraceCount(response, "semantic_official") = 3
    /\ ~StageOf(response, "semantic_community")
    /\ semantic_search("community_plugin", 3, response.req.emb, response.req.o) # <<>>

\* the symbols the symbol stage searches for
SearchedSymbols(r) == Take(r.api_symbols_detected, MAX_SYMBOLS)

SymbolCorpora == {"official", "community_plugin"}

\* the rows the variant list of the cross linker selects for a symbol
VariantRows(symbol, section, tie) ==
    FirstRows(create_search_variants(symbol), section, SYMBOL_TOP_K, tie)

\* C21: for every symbol the symbol stage searches for and either corpus,
\* api_symbol_search returns the rows of the first variant, in the order
\* full symbol, symbol without 'figma.', last dotted segment, that has rows:
\* the rows the variant list of the cross linker selects.
C21_SameFirstVariant ==
    SearchReturned =>
        \A i \in 1..Len(SearchedSymbols(response)), section \in SymbolCorpora :
            ChunksOf(api_symbol_search(SearchedSymbols(response)[i], section, SYMBOL_TOP_K,
                                       response.req.o))
                = SeqToSet(VariantRows(SearchedSymbols(response)[i], section,
                                       response.req.o.tie))

\* the trace entry a candidate of the first four stages belongs to
EntryOf(c) ==
    CASE c.search_method = "semantic" /\ c.source_type = "official_docs" ->
            <<"semantic_official", <<>>>>
      [] c.search_method = "semantic" -> <<"semantic_community", <<>>>>
      [] c.search_method = "api_symbol" -> <<"api_symbol", c.matched_symbol>>
      [] OTHER -> <<c.search_method, <<>>>>

Contributed(cands, entry) ==
    Cardinality({j \in 1..Len(cands) : EntryOf(cands[j]) = <<entry.stage, entry.symbol>>})

RECURSIVE SumCounts(_)
SumCounts(t) == IF t = <<>> THEN 0 ELSE Head(t).count + SumCounts(Tail(t))

FuzzyResults(r) ==
    Cardinality({j \in 1..Len(r.results) : r.results[j].search_method = "fuzzy_fallback"})

\* the entries of the trace count the candidates cands of the first four stages
Accounts(r, cands) ==
    /\ \A i \in 1..Len(r.search_strategy) :
          r.search_strategy[i].count =
             IF r.search_strategy[i].stage = "fuzzy_fallback" THEN FuzzyResults(r)
             ELSE Contributed(cands, r.search_strategy[i])
    /\ \A j \in 1..Len(cands) :
          \E i \in 1..Len(r.search_strategy) :
              EntryOf(cands[j]) = <<r.search_strategy[i].stage, r.search_strategy[i].symbol>>
    /\ \A i, j \in 1..Len(r.search_strategy) :
          (r.search_strategy[i].stage = r.search_strategy[j].stage
              /\ r.search_strategy[i].symbol = r.search_strategy[j].symbol) => i = j

\* C22: in a returned search every stage that gave a candidate has one trace
\* entry (the symbol stage one per symbol) whose count is the number of
\* candidates it gave, and total_found is the sum of the counts of the trace.
C22_TraceAccounts ==
    SearchReturned =>
        /\ Accounts(response, CandidatesOf(response))
        /\ response.total_found = SumCounts(response.search_strategy)

\* three stages gave candidates, the symbol stage more than the result list holds
C22_Witness ==
    /\ SearchReturned
    /\ Len(response.search_strategy) = 3
    /\ response.search_strategy[1].stage = "semantic_official"
    /\ response.search_strategy[2].stage = "semantic_community"
    /\ response.search_strategy[3].stage = "api_symbol"
    /\ response.search_strategy[3].count >= 2
    /\ response.total_found > Len(response.results)
    /\ response.total_found >= 5

\* the first candidate of cands for the chunk c
FirstFor(cands, c) == cands[CHOOSE i \in 1..Len(cands) :
                              /\ cands[i].chunk_id = c
                              /\ \A j \in 1..(i - 1) : cands[j].chunk_id # c]

KeepsFirst(r, first) ==
    /\ r.score = first.score
    /\ r.search_method = first.search_method
    /\ r.matched_symbol = first.matched_symbol
    /\ r.api_match = first.api_match
    /\ r.source_type = derive_source_type(first)

\* C23: every entry of a returned result list is the first candidate, in
\* stage order, of its chunk, with that candidate's score, search_method
\* and source_type, and the list holds min(limit, number of distinct chunks)
\* entries: duplicates go before the sort and the cut.
C23_FirstOccurrence ==
    (SearchReturned /\ CandidatesOf(response) # <<>>)
    => /\ \A i \in 1..Len(response.results) :
            /\ response.results[i].chunk_id \in ChunksOf(CandidatesOf(response))
            /\ KeepsFirst(response.results[i],
                          FirstFor(CandidatesOf(response), response.results[i].chunk_id))
       /\ Len(response.results) =
            Min(response.req.top_k, Cardinality(ChunksOf(CandidatesOf(response))))

\* a chunk found by the semantic stage and again by the symbol stage is
\* returned as the semantic entry
C23_Witness ==
    /\ SearchReturned
    /\ \E i \in 1..Len(response.results) :
          /\ response.results[i].search_method = "semantic"
          /\ response.results[i].source_type = "official_docs"
          /\ response.results[i].score # API_SCORE
          /\ \E j \in 1..Len(CandidatesOf(response)) :
                /\ CandidatesOf(response)[j].chunk_id = response.results[i].chunk_id
                /\ CandidatesOf(response)[j].search_method = "api_symbol"
                /\ CandidatesOf(response)[j].source_type = "api_reference"
    /\ response.total_found > Cardinality(ChunksOf(CandidatesOf(response)))
    /\ Cardinality(ChunksOf(CandidatesOf(response))) > response.req.top_k

\* some symbol of the text of a result has a match in the other corpus
CrossMatch(res, o) ==
    \E s \in ExtractContentSymbols(chunks[res.chunk_id].text) :
        IF IsOfficialResult(res) THEN CommunityUsage(s, USAGE_LIMIT, o) # <<>>
        ELSE find_official_documentation(s, FALSE, o) # <<>>

\* the bundle of a result points to the other corpus, and is absent without a
\* symbol or a match
OtherCorpus(res, o) ==
    /\ res.cross_links.type \in {"", "community_examples", "official_documentation"}
    /\ res.cross_links.type = "" <=> res.cross_links.items = <<>>
    /\ res.cross_links.type = "community_examples" =>
          /\ IsOfficialResult(res)
          /\ \A i \in 1..Len(res.cross_links.items) :
                PageOf(res.cross_links.items[i].chunk_id).section = "community_plugin"
    /\ res.cross_links.type = "official_documentation" =>
          /\ ~IsOfficialResult(res) /\ IsCommunityResult(res)
          /\ \A i \in 1..Len(res.cross_links.items) :
                pages[res.cross_links.items[i].page_id].source = "official"
    /\ ~CrossMatch(res, o) => res.cross_links = NoLinks

\* C24: every result of a completed call carries at most one bundle; an
\* official result only community examples that are chunks of community
\* pages, a community result only official documentation of official pages,
\* and a result whose text has no symbol, or whose symbols have no match in
\* the other corpus, none.
C24_LinksToOtherCorpus ==
    \A slot \in Slots :
        calls[slot].pc = "done" =>
            \A i \in 1..Len(calls[slot].result.results) :
                OtherCorpus(calls[slot].result.results[i], calls[slot].req.o)

\* the examples find_community_usage gave for the symbols of a result of the
\* answered search
FoundFor(r, res) ==
    FoundExamples(LinkSymbols(res, r.req.o), usage_cache, r.req.fail = "crosslink", r.req.o)

Distinct(items, field) ==
    \A i, j \in 1..Len(items) : items[i][field] = items[j][field] => i = j

\* items are the best two of the examples found, one per chunk
TopExamples(items, found) ==
    /\ Distinct(items, "chunk_id")
    /\ Len(items) = Min(LINK_LIMIT, Cardinality({found[k].chunk_id : k \in 1..Len(found)}))
    /\ \A i \in 1..Len(items) :
          /\ \E k \in 1..Len(found) : found[k] = items[i]
          /\ \A k \in 1..Len(found) :
                found[k].chunk_id = items[i].chunk_id
                    => found[k].confidence <= items[i].confidence
    /\ \A i \in 1..(Len(items) - 1) : items[i].confidence >= items[i + 1].confidence
    /\ \A k \in 1..Len(found) :
          (\A i \in 1..Len(items) : items[i].chunk_id # found[k].chunk_id)
              => found[k].confidence <= items[Len(items)].confidence

\* C25: a community_examples bundle holds pairwise distinct chunks, each with
\* the highest confidence an example of it has over the symbols, the best
\* two in non-increasing order of confidence; an official_documentation
\* bundle holds pairwise distinct pages.
C25_BundleMerged ==
    SearchReturned =>
        \A i \in 1..Len(response.results) :
            /\ response.results[i].cross_links.type = "community_examples"
                  => TopExamples(response.results[i].cross_links.items,
                                 FoundFor(response, response.results[i]))
            /\ response.results[i].cross_links.type = "official_documentation"
                  => Distinct(response.results[i].cross_links.items, "page_id")

\* one chunk found for two symbols with different confidences, and more
\* chunks found than the bundle holds
C25_Witness ==
    /\ SearchReturned
    /\ \E i \in 1..Len(response.results) :
          /\ response.results[i].cross_links.type = "community_examples"
          /\ Len(response.results[i].cross_links.items) = LINK_LIMIT
          /\ \E k \in 1..Len(FoundFor(response, response.results[i])) :
                /\ FoundFor(response, response.results[i])[k].chunk_id
                      = response.results[i].cross_links.items[1].chunk_id
                /\ FoundFor(response, response.results[i])[k].confidence
                      < response.results[i].cross_links.items[1].confidence

\* C26: whatever texts the cross linker was asked about before,
\* extract_api_symbols_from_content(t) returns the symbols that occur in t,
\* the set an extractor without a cache returns.
C26_ExtractionPure ==
    output.kind = "symbols" => output.symbols = ExtractContentSymbols(output.text)

\* C27: the symbols extracted from a text never hold two symbols that are
\* equal when case is ignored.
C27_CaseFoldedSymbols ==
    output.kind = "symbols"
        => \A a, b \in output.symbols : LowerStr(a) = LowerStr(b) => a = b

AutoExpanded == ExpandReturned /\ response.req.type = "auto" /\ response.req.fail = "none"

ExpandedDirectly(r, type) ==
    /\ r.success
    /\ r.method_used = MethodOf(type)
    /\ r.data.type = type
    /\ r.auto_detected
    /\ ~r.fallback_used
    /\ r.tried = <<type>>

\* an identifier of the chunk table alone is expanded as a chunk, one of
\* neither table is tried first by its shape
ChunkOrShape(r) ==
    /\ (r.req.id \notin DOMAIN pages /\ r.req.id \in DOMAIN chunks)
          => ExpandedDirectly(r, "chunk")
    /\ (r.req.id \notin DOMAIN pages /\ r.req.id \notin DOMAIN chunks)
          => r.tried[1] = IF IsUuid(r.req.id) THEN "chunk" ELSE "page"

\* C28 as stated: with type auto (the store answering) an identifier of the
\* page table is expanded as a page, without fallback, even when it is a
\* chunk identifier too; one of the chunk table alone as a chunk; one of
\* neither table is typed by its shape.
C28_PageFirst ==
    AutoExpanded =>
        /\ response.req.id \in DOMAIN pages => ExpandedDirectly(response, "page")
        /\ ChunkOrShape(response)

\* C28, amended: an identifier of the page table is tried as a page first and,
\* when the page has a chunk, expanded as a page without fallback; a page
\* without chunks gives no page data and the other methods follow.
C28_PageFirstWhenChunks ==
    AutoExpanded =>
        /\ response.req.id \in DOMAIN pages =>
              /\ response.tried[1] = "page"
              /\ ChunksOn(response.req.id) # {} => ExpandedDirectly(response, "page")
              /\ ChunksOn(response.req.id) = {} =>
                    /\ Len(response.tried) >= 2
                    /\ response.tried[2] = "chunk"
                    /\ response.data.type # "page"
        /\ ChunkOrShape(response)

\* "c4" is a page and a chunk: it is expanded as the page
C28_Witness ==
    /\ AutoExpanded
    /\ response.req.id \in DOMAIN pages \cap DOMAIN chunks
    /\ response.method_used = "page_expansion"
    /\ response.data.page_id = response.req.id
    /\ response.data.total_chunks = 1
    /\ ~response.fallback_used

\* a page without chunks: nothing is found
C28_EmptyPage ==
    /\ AutoExpanded
    /\ response.req.id \in DOMAIN pages
    /\ ChunksOn(response.req.id) = {}
    /\ ~response.success

\* C29: call_tool answers every request and never raises; an unknown tool
\* name gets isError = true with 'Unknown tool', echo_test gets the echo with
\* isError = false.
C29_AlwaysAnswers ==
    output.kind = "tool" =>
        /\ ~output.raised
        /\ output.name \notin Tools \cup {"echo_test"}
              => output.isError /\ output.text = "Unknown tool"
        /\ output.name = "echo_test" => ~output.isError /\ output.text = "ECHO"

Targets(data) == {i \in 1..Len(data.context_chunks) : data.context_chunks[i].is_target}

\* C30: page data of a successful expansion has total_chunks >= 1, chunk
\* data has a context window that holds the requested chunk with exactly
\* one entry marked is_target, and a page that has no chunks is never
\* answered as page data: the next method is tried.
C30_NeverEmpty ==
    ExpandReturned =>
        /\ (response.success /\ response.data.type = "page") =>
              /\ response.data.total_chunks >= 1
              /\ Len(response.data.chunks_info) = response.data.total_chunks
              /\ response.data.content # <<>>
        /\ (response.success /\ response.data.type = "chunk") =>
              /\ Cardinality(Targets(response.data)) = 1
              /\ \A i \in Targets(response.data) :
                    /\ response.data.context_chunks[i].chunk_id = response.data.chunk_id
                    /\ response.data.target_position_in_context = i - 1
              /\ response.data.expanded_content # <<>>
        /\ (response.req.id \in DOMAIN pages /\ ChunksOn(response.req.id) = {}) =>
              /\ response.data.type # "page"
              /\ "page" \in SeqToSet(response.tried) => response.tried # <<"page">>

\* the page without chunks asked for as a page: the chunk expansion and the
\* partial match are tried after it
C30_Witness ==
    /\ ExpandReturned
    /\ response.req.type = "page"
    /\ response.req.fail = "none"
    /\ response.req.id \in DOMAIN pages
    /\ ChunksOn(response.req.id) = {}
    /\ response.tried = <<"page", "chunk", "partial_match">>

\* the middle chunk of a page expanded with its two neighbours
C30_TargetInWindow ==
    /\ ExpandReturned
    /\ response.success
    /\ response.data.type = "chunk"
    /\ Len(response.data.context_chunks) = 3
    /\ Targets(response.data) = {2}

====================================================================
